---- MODULE Spec2Model ----
(***************************************************************************)
(* Model of the command execution and validation core of the atomic image  *)
(* manager: the privileged command executor (entry guard, subprocess       *)
(* streaming, timeout, cancellation), the command validator and the        *)
(* authorization retry loop, followed by the history store, the progress  *)
(* tracker, the registry query cache and the deployment query layer.       *)
(*                                                                         *)
(* command_executor.py and deployment_manager.py are not among the source  *)
(* files; they are modelled from the specification, and wherever the       *)
(* repository's tests or its other code pin a behaviour, from those.       *)
(***************************************************************************)
EXTENDS Integers, Sequences, FiniteSets, TLC

(* ----------------------------- bounds ---------------------------------- *)

\* calls of execute_with_progress the worker threads make in all
MaxCalls == 2
\* lines one subprocess writes
MaxLines == 2
\* calls of cancel_current_execution the UI context makes
MaxCancels == 2

\* the largest max_retries request_elevated_privileges is called with
MaxRetries == 3
\* calls of request_elevated_privileges
MaxRequests == 2
\* add_entry calls
MaxAdds == 3
\* clear_history calls
MaxClears == 1
\* I/O errors and crashes during history writes
MaxFaults == 1
\* calls made on one ProgressTracker
MaxTrackerCalls == 5
\* update_output calls that deliver a thousand lines at once
MaxBulks == 1
\* queries made on one RegistryManager
MaxQueries == 3
\* minutes that pass while the RegistryManager lives
MaxClock == 6
\* calls made on one DeploymentManager
MaxDeploymentCalls == 2
\* security reports generated
MaxReports == 2
\* add_entry calls made by the two threads together
MaxThreadAdds == 3
\* clicks on the system-update button, each starting one worker thread
MaxUpdates == 2
\* lines one update process writes
MaxUpdateLines == 1

(* --------------------------- vocabulary --------------------------------- *)

Workers == {"w1", "w2"}

None == "none"

\* A line of output is the sequence of its characters, the newline left out.
Whitespace == {" "}

\* What a process may write as its i-th line: an empty line, or a line of text
\* (here the digit of i) followed by a blank.
LineText == <<"1", "2", "3", "4", "5">>

LineChoices(i) == {<< >>, <<LineText[i], " ">>}

VARIABLES
    is_executing,      \* the executor's guard flag
    current_process,   \* the worker whose subprocess the executor holds, or None
    cancel_requested,  \* a cancellation was signalled to the held subprocess
    pc,                \* each worker's position in execute_with_progress
    argv,              \* each worker's argument vector
    via,               \* how the call was made: "direct" or "api"
    calls,             \* calls made so far
    proc,              \* each worker's subprocess
    nread,             \* lines the worker has taken from the pipe
    output_lines,      \* lines the worker has captured
    sink,              \* lines handed to the caller's sink
    exc,               \* exception in flight in the worker, or None
    result,            \* what the call returned
    ui_pc,             \* the UI context's position in cancel_current_execution
    ui_target,         \* the process handle cancel_current_execution took
    cancels,           \* cancel calls made
    cancel_result,     \* what the last cancel call returned
    auth_pc,           \* position in request_elevated_privileges and its caller
    auth_n,            \* the max_retries of the call
    auth_log,          \* the answers of the authorization checks of the call
    auth_result,       \* what request_elevated_privileges returned
    auth_requests,     \* calls of request_elevated_privileges so far
    auth_grants,       \* calls that returned authorized
    auth_runs,         \* privileged commands the caller went on to execute
    v_argv,            \* the argv last handed to validate_command
    v_result,          \* what validate_command returned for it
    u_url,             \* the URL last handed to validate_image_url
    u_result,          \* what validate_image_url returned for it
    u_cmd_result,      \* what validate_command returned for a rebase to it
    fs,                \* the history directory: each path's file
    h_pc,              \* position of the running HistoryManager call
    h_op,              \* the running call: add, prune or clear
    h_log,             \* the state of the journal and syslog sinks in this call
    h_entry,           \* add_entry: the new entry (a list of one, or empty)
    h_loaded,          \* the entries _load_history returned to the call
    h_entries,         \* the entries handed to _save_history
    h_value,           \* the value the call is about to return
    h_ret,             \* how the last call ended
    h_clock,           \* time.time()
    h_init,            \* the history file as it was found
    h_adds,            \* add_entry calls so far
    h_clears,          \* clear_history calls so far
    h_faults,          \* I/O errors and crashes so far
    e_entry,           \* the HistoryEntry last converted (a list of one, or empty)
    e_dict,            \* what to_dict made of it
    e_back,            \* what from_dict made of that
    operation_name,    \* ProgressTracker: the operation tracked, or None
    start_time,        \* when tracking started (empty when None)
    output_buffer,     \* the deque of the lines emitted, newest last
    is_tracking,       \* tracking is active
    line_buffer,       \* the pending partial line
    js_queue,          \* the scripts handed to GLib.idle_add, in order
    t_clock,           \* time.time() as the tracker reads it
    t_text,            \* the text delivered while tracking since start_tracking
    t_lines,           \* the lines emitted since the buffer was last emptied
    t_last,            \* the last call made on the tracker, and the flag it found
    t_calls,           \* calls made on the tracker
    t_bulks,           \* thousand-line deliveries made
    cache,             \* RegistryManager.cache: each key's entry
    r_clock,           \* datetime.now(), in minutes
    r_fetched,         \* for each (registry, image, branch): its last listing
    r_last,            \* the last query made and how it ended
    r_queries,         \* queries made
    r_days,            \* the days argument of the last get_recent_images
    d_last,            \* the last DeploymentManager call and what it returned
    d_calls,           \* DeploymentManager calls made
    rep_last,          \* the last generate_security_report call and its report
    rep_calls,         \* generate_security_report calls made
    a_pc,              \* each thread's position in add_entry
    a_new,             \* each thread's new entry (a list of one, or empty)
    a_list,            \* each thread's entries, loaded and prepended to
    a_fd,              \* the inode each thread's open file refers to, or 0
    a_dir,             \* the history directory: each path's inode, or 0
    a_ino,             \* each inode's text
    a_next,            \* the next inode
    a_clock,           \* time.time() as add_entry reads it
    a_done,            \* the entries whose add_entry has returned
    a_adds,            \* add_entry calls made by the threads
    an_last,           \* the last _analyze_error_type call and its answer
    update_process,    \* OSManagerWindow.update_process: a process or NoHandle
    is_system_update,  \* OSManagerWindow.is_system_update
    u_ui,              \* the stack's page and the buttons' state
    u_posted,          \* whether a finishing ui_update waits in the idle queue
    u_main,            \* where the UI thread is in a click handler
    u_host,            \* the update tools installed on the host
    u_pc,              \* where each run_system_update thread is
    u_checked,         \* the tools each thread has looked for, in order
    u_sel,             \* each thread's selected_tool: an index or NoTool
    u_held,            \* the process whose stdout each thread reads
    u_raised,          \* the exception each thread's try block raised
    u_proc,            \* the update processes, by the thread that started them
    u_clicks,          \* the update threads started
    g_window,          \* the window's detected image and pending changes
    g_last             \* the last generate_rebase_url call and its answer

execVars == <<is_executing, current_process, cancel_requested, pc, argv, via,
              calls, proc, nread, output_lines, sink, exc, result,
              ui_pc, ui_target, cancels, cancel_result>>

authVars == <<auth_pc, auth_n, auth_log, auth_result, auth_requests, auth_grants,
              auth_runs>>

valVars == <<v_argv, v_result, u_url, u_result, u_cmd_result>>

histVars == <<fs, h_pc, h_op, h_log, h_entry, h_loaded, h_entries, h_value, h_ret,
              h_clock, h_init, h_adds, h_clears, h_faults>>

entryVars == <<e_entry, e_dict, e_back>>

trackerState == <<operation_name, start_time, output_buffer, is_tracking,
                  line_buffer, js_queue>>

trackerVars == <<trackerState, t_clock, t_text, t_lines, t_last, t_calls, t_bulks>>

registryVars == <<cache, r_clock, r_fetched, r_last, r_queries, r_days>>

deploymentVars == <<d_last, d_calls>>

reportVars == <<rep_last, rep_calls>>

addVars == <<a_pc, a_new, a_list, a_fd, a_dir, a_ino, a_next, a_clock, a_done,
             a_adds>>

analyzeVars == <<an_last>>

updateVars == <<update_process, is_system_update, u_ui, u_posted, u_main, u_host,
                u_pc, u_checked, u_sel, u_held, u_raised, u_proc, u_clicks>>

urlVars == <<g_window, g_last>>

osVars == <<updateVars, urlVars>>

lateVars == <<reportVars, addVars, analyzeVars, osVars>>

\* the variables of the components modelled further down
otherVars == <<entryVars, trackerVars, registryVars, deploymentVars, lateVars>>

coreVars == <<execVars, authVars, valVars, histVars>>

nonEntryVars == <<coreVars, trackerVars, registryVars, deploymentVars, lateVars>>

nonTrackerVars == <<coreVars, entryVars, registryVars, deploymentVars, lateVars>>

nonRegistryVars == <<coreVars, entryVars, trackerVars, deploymentVars, lateVars>>

nonDeploymentVars == <<coreVars, entryVars, trackerVars, registryVars, lateVars>>

earlyVars == <<coreVars, entryVars, trackerVars, registryVars, deploymentVars>>

nonReportVars == <<earlyVars, addVars, analyzeVars, osVars>>

nonAddVars == <<earlyVars, reportVars, analyzeVars, osVars>>

nonAnalyzeVars == <<earlyVars, reportVars, addVars, osVars>>

nonUpdateVars == <<earlyVars, reportVars, addVars, analyzeVars, urlVars>>

nonUrlVars == <<earlyVars, reportVars, addVars, analyzeVars, updateVars>>

vars == <<execVars, authVars, valVars, histVars, otherVars>>

\* what the steps of each component leave alone
nonExecVars == <<authVars, valVars, histVars, otherVars>>

nonAuthVars == <<execVars, valVars, histVars, otherVars>>

nonValVars == <<execVars, authVars, histVars, otherVars>>

nonHistVars == <<execVars, authVars, valVars, otherVars>>

(* ------------------------- command validator ---------------------------- *)
(* A string is the sequence of its tokens: a word without special          *)
(* characters, or one special character (or character pair) by itself.     *)
(* "s contains c" is then "c is one of s's tokens".                        *)

Tokens(s) == {s[i] : i \in 1..Len(s)}

Str(w) == <<w>>

\* the trusted tool names (the ostree/bootc family)
TRUSTED_TOOLS == {Str("rpm-ostree"), Str("bootc")}

\* the subcommands each trusted tool may be run with
ALLOWED_SUBCOMMANDS(tool) ==
    IF tool = Str("rpm-ostree")
    THEN {Str("status"), Str("rebase"), Str("rollback"), Str("deploy"), Str("cleanup")}
    ELSE {Str("status"), Str("switch"), Str("rollback"), Str("upgrade")}

\* the subcommands whose next argument is an image reference
IMAGE_SUBCOMMANDS == {Str("rebase"), Str("switch")}

\* the shell metacharacters no argument may contain
DANGEROUS_CHARS == {";", "|", "&", "backtick", "$", "$(", "<", ">"}

\* the patterns no image URL may contain
SUSPICIOUS_PATTERNS == {";", "|", "&", "backtick", "$(", "\n", "\t", " ", "//", "..", "\\"}

\* the characters that end a word: a tag holds none of them
SPECIAL_TOKENS == DANGEROUS_CHARS \cup SUSPICIOUS_PATTERNS \cup {"/", ":", "{", "}", "(", ")"}

\* registry and organisation pairs images may come from
ALLOWED_REGISTRIES ==
    {<<"ghcr.io", "ublue-os">>,
     <<"quay.io", "fedora-ostree-desktop">>,
     <<"registry.fedoraproject.org", "fedora">>}

\* the images allowed under each registry and organisation
ALLOWED_IMAGES(reg) ==
    IF reg = <<"ghcr.io", "ublue-os">> THEN {"bluefin", "aurora", "bazzite"}
    ELSE IF reg = <<"quay.io", "fedora-ostree-desktop">> THEN {"silverblue", "kinoite"}
    ELSE IF reg = <<"registry.fedoraproject.org", "fedora">>
         THEN {"fedora-silverblue", "fedora-kinoite"}
    ELSE {}

Accept == [ok |-> TRUE, error |-> None]

Reject(msg) == [ok |-> FALSE, error |-> msg]

HasDoubleSlash(url) ==
    \E i \in 1..(Len(url) - 1) : url[i] = "/" /\ url[i + 1] = "/"

\* the position of the colon that starts the tag, 0 when there is none
TagColon(url) ==
    IF \E i \in 1..Len(url) : url[i] = ":"
    THEN CHOOSE i \in 1..Len(url) :
            url[i] = ":" /\ \A j \in (i + 1)..Len(url) : url[j] # ":"
    ELSE 0

\* the suspicious-pattern test of validate_image_url
IsSuspicious(url) ==
    Tokens(url) \cap SUSPICIOUS_PATTERNS # {} \/ HasDoubleSlash(url)

RegistryAllowedByHost(name) ==
    /\ Len(name) = 5 /\ name[2] = "/" /\ name[4] = "/"
    /\ \E r \in ALLOWED_REGISTRIES : r[1] = name[1]

\* the registry/org test: name is registry/org/image and the pair is listed
RegistryAllowed(name) ==
    /\ Len(name) = 5 /\ name[2] = "/" /\ name[4] = "/"
    /\ <<name[1], name[3]>> \in ALLOWED_REGISTRIES

\* the checks on the parsed reference: registry and org, image, tag
CheckReference(url) ==
    LET c    == TagColon(url)
        name == IF c = 0 THEN url ELSE SubSeq(url, 1, c - 1)
        tag  == IF c = 0 THEN << >> ELSE SubSeq(url, c + 1, Len(url))
    IN  IF ~RegistryAllowed(name)
        THEN Reject("must be from an allowed registry: not allowed")
        ELSE IF name[5] \notin ALLOWED_IMAGES(<<name[1], name[3]>>)
        THEN Reject("image path not allowed")
        ELSE IF ~(Len(tag) = 1 /\ tag[1] \notin SPECIAL_TOKENS)
        THEN Reject("invalid tag format")
        ELSE Accept

validate_image_url_RegistryFirst(url) ==
    IF ~CheckReference(url).ok THEN CheckReference(url)
    ELSE IF IsSuspicious(url) THEN Reject("suspicious pattern")
    ELSE Accept

\* validate_image_url(url) -> (ok, error); the length cap is left out: every
\* URL of the model is far shorter than it
validate_image_url(url) ==
    IF IsSuspicious(url) THEN Reject("suspicious pattern")
    ELSE CheckReference(url)

HasDangerousCharInImageArg(cmd) ==
    Len(cmd) >= 3 /\ Tokens(cmd[3]) \cap DANGEROUS_CHARS # {}

\* some argument, at any position, holds a character of the deny-set
HasDangerousChar(cmd) ==
    \E i \in 1..Len(cmd) : Tokens(cmd[i]) \cap DANGEROUS_CHARS # {}

validate_command_AnyTool(cmd) ==
    IF cmd = << >> THEN Reject("Empty command")
    ELSE IF \E i \in 1..Len(cmd) : Tokens(cmd[i]) \cap DANGEROUS_CHARS # {}
    THEN Reject("dangerous character")
    ELSE IF Len(cmd) >= 3 /\ cmd[2] \in IMAGE_SUBCOMMANDS
    THEN validate_image_url(cmd[3])
    ELSE Accept

\* validate_command(argv) -> (ok, error)
validate_command(cmd) ==
    IF cmd = << >> THEN Reject("Empty command")
    ELSE IF cmd[1] \notin TRUSTED_TOOLS THEN Reject("Untrusted command")
    ELSE IF Len(cmd) < 2 \/ cmd[2] \notin ALLOWED_SUBCOMMANDS(cmd[1])
    THEN Reject("Unsupported subcommand")
    ELSE IF HasDangerousChar(cmd)
    THEN Reject("dangerous character")
    ELSE IF cmd[2] \in IMAGE_SUBCOMMANDS
    THEN (IF Len(cmd) < 3 THEN Reject("missing image reference")
          ELSE validate_image_url(cmd[3]))
    ELSE Accept

(* --------------------------- line handling ------------------------------ *)

RECURSIVE rstrip(_)
\* str.rstrip(): the line without its trailing whitespace
rstrip(line) ==
    IF line = << >> THEN << >>
    ELSE IF line[Len(line)] \in Whitespace
         THEN rstrip(SubSeq(line, 1, Len(line) - 1))
         ELSE line

ProcessLineUnfiltered(line, captured, sunk) ==
    <<Append(captured, line), Append(sunk, line)>>

\* The loop body for one line read: strip it, and only a non-empty line is
\* captured and handed to the callback.  Returns the new <<captured, sunk>>.
ProcessLine(line, captured, sunk) ==
    LET l == rstrip(line)
    IN  IF l # << >> THEN <<Append(captured, l), Append(sunk, l)>>
        ELSE <<captured, sunk>>

(* ------------------------- executor: results ---------------------------- *)

NoResult ==
    [success |-> FALSE, lines |-> << >>, markers |-> {}, error_kind |-> "unset",
     outcome |-> "unset"]

NoProc ==
    [id |-> 0, state |-> "none", emitted |-> << >>, rc |-> 0, terms |-> 0,
     wkills |-> 0, ckills |-> 0]

\* the pcs of a call that passed the entry guard and has not yet released it
ActivePcs == {"spawn", "poll", "read", "sink", "drain", "finish", "except", "finally"}

BusyResultKindBusy ==
    [success |-> FALSE, lines |-> << >>, markers |-> {"already executing"},
     error_kind |-> "busy", outcome |-> "rejected"]

\* what the entry guard returns to a call that finds the executor busy
BusyResult ==
    [success |-> FALSE, lines |-> << >>, markers |-> {"already executing"},
     error_kind |-> "general", outcome |-> "rejected"]

\* what the caller reports for an argv validate_command rejects
InvalidCommandResult(error) ==
    [success |-> FALSE, lines |-> << >>, markers |-> {"Invalid command", error},
     error_kind |-> "validation_error", outcome |-> "rejected"]

\* the phrases of the captured output that decide the kind of a failure; a
\* line is the sequence of its phrases, lower-cased
NetworkPhrases ==
    {"unable to connect", "could not resolve host", "dial tcp", "network timeout",
     "connection refused"}

AuthPhrases ==
    {"permission denied", "authentication failed", "authorization failed",
     "unauthorized", "access denied"}

BusyPhrases == {"transaction already in use", "another transaction", "busy"}

NotFoundPhrases == {"no such", "not found"}

\* a line of the output holds one of the phrases
Contains(output, phrases) ==
    \E i \in 1..Len(output) : \E j \in 1..Len(output[i]) : output[i][j] \in phrases

\* the categories and their phrases, in the order they are tested
ErrorCategories ==
    <<[kind |-> "network", phrases |-> NetworkPhrases],
      [kind |-> "auth", phrases |-> AuthPhrases],
      [kind |-> "busy", phrases |-> BusyPhrases],
      [kind |-> "not_found", phrases |-> NotFoundPhrases]>>

FirstMatchReversed(output, categories) ==
    LET hits == {k \in 1..Len(categories) : Contains(output, categories[k].phrases)}
    IN  IF hits = {} THEN "general"
        ELSE categories[CHOOSE k \in hits : \A m \in hits : m <= k].kind

\* the kind of the first category one of whose phrases the output holds
FirstMatch(output, categories) ==
    LET hits == {k \in 1..Len(categories) : Contains(output, categories[k].phrases)}
    IN  IF hits = {} THEN "general"
        ELSE categories[CHOOSE k \in hits : \A m \in hits : k <= m].kind

\* _analyze_error_type(output, exit_code)
_analyze_error_type(output, exit_code) == FirstMatch(output, ErrorCategories)

CompletionResultByExitCode(captured, rc, cancelled) ==
    [success    |-> (rc = 0),
     lines      |-> captured,
     markers    |-> IF rc # 0 THEN {"exit code"} ELSE {},
     error_kind |-> IF rc = 0 THEN "" ELSE _analyze_error_type(captured, rc),
     outcome    |-> IF rc = 0 THEN "Succeeded" ELSE "Failed"]

\* the result of a call whose process was reaped by the read loop
CompletionResult(captured, rc, cancelled) ==
    [success    |-> (rc = 0 /\ ~cancelled),
     lines      |-> captured,
     markers    |-> (IF cancelled THEN {"cancelled"} ELSE {})
                    \cup (IF rc # 0 /\ ~cancelled THEN {"exit code"} ELSE {}),
     error_kind |-> IF cancelled THEN "cancelled"
                    ELSE IF rc = 0 THEN ""
                    ELSE _analyze_error_type(captured, rc),
     outcome    |-> IF cancelled THEN "Cancelled"
                    ELSE IF rc = 0 THEN "Succeeded" ELSE "Failed"]

\* the result of a call whose read loop was left by the timeout
TimeoutResult(captured, cancelled) ==
    [success    |-> FALSE,
     lines      |-> captured,
     markers    |-> {"timed out"} \cup (IF cancelled THEN {"cancelled"} ELSE {}),
     error_kind |-> "timeout",
     outcome    |-> "TimedOut"]

\* the result of a call that an unexpected exception ended
ExceptionResult(captured, cancelled) ==
    [success    |-> FALSE,
     lines      |-> captured,
     markers    |-> {"exception text"} \cup (IF cancelled THEN {"cancelled"} ELSE {}),
     error_kind |-> "general",
     outcome    |-> "Failed"]

CaughtTimeoutOnly(e) == e = "TimeoutExpired"

\* the exceptions the executor boundary catches
CaughtAtBoundary(e) == e \in {"TimeoutExpired", "Exception"}

NoKillOnTimeout(kills) == kills

\* the kill() count of the process after the timeout handler ran
KillOnTimeout(kills) == kills + 1

(* -------------------------- executor: calls ----------------------------- *)

GoodUrl == <<"ghcr.io", "/", "ublue-os", "/", "bluefin", ":", "latest">>

BadUrl == <<"docker.io", "/", "malicious", "/", "image", ":", "latest">>

RebaseCommand(url) == <<Str("rpm-ostree"), Str("rebase"), url>>

\* argument vectors handed to execute_with_progress directly
DirectArgvs == {<<Str("echo"), Str("test")>>}

\* image URLs the caller is asked to rebase to
ApiUrls == {GoodUrl, BadUrl}

StartCall(t, a, v) ==
    /\ argv' = [argv EXCEPT ![t] = a]
    /\ via' = [via EXCEPT ![t] = v]
    /\ calls' = calls + 1
    /\ UNCHANGED <<proc, nread, output_lines, sink, exc>>

uiVars == <<ui_pc, ui_target, cancels, cancel_result>>

guardVars == <<is_executing, current_process, cancel_requested>>

callVars == <<argv, via, calls>>

\* a worker thread calls execute_with_progress(argv, sink)
DirectCall(t) ==
    /\ pc[t] = "idle"
    /\ calls < MaxCalls
    /\ \E a \in DirectArgvs : StartCall(t, a, "direct")
    /\ pc' = [pc EXCEPT ![t] = "guard"]
    /\ result' = [result EXCEPT ![t] = NoResult]
    /\ UNCHANGED <<guardVars, uiVars>>
    /\ UNCHANGED nonExecVars

CallerProceedsUnchecked(cmd) == TRUE

\* whether the caller goes on to execute_with_progress with this command
CallerProceeds(cmd) == validate_command(cmd).ok

\* the caller's execute_rebase(url): validate the command, and only call
\* execute_with_progress for an accepted one
ApiExecuteRebase(t) ==
    /\ pc[t] = "idle"
    /\ calls < MaxCalls
    /\ \E u \in ApiUrls :
         /\ StartCall(t, RebaseCommand(u), "api")
         /\ IF CallerProceeds(RebaseCommand(u))
            THEN /\ pc' = [pc EXCEPT ![t] = "guard"]
                 /\ result' = [result EXCEPT ![t] = NoResult]
            ELSE /\ pc' = [pc EXCEPT ![t] = "done"]
                 /\ result' = [result EXCEPT ![t] =
                        InvalidCommandResult(validate_command(RebaseCommand(u)).error)]
    /\ UNCHANGED <<guardVars, uiVars>>
    /\ UNCHANGED nonExecVars

BusyByProcessHandle == current_process # None

\* the entry guard's test
Busy == is_executing

\* the entry guard: reject when busy, else take the executor, in one step
Guard(t) ==
    /\ pc[t] = "guard"
    /\ IF Busy
       THEN /\ result' = [result EXCEPT ![t] = BusyResult]
            /\ pc' = [pc EXCEPT ![t] = "done"]
            /\ UNCHANGED is_executing
       ELSE /\ is_executing' = TRUE
            /\ pc' = [pc EXCEPT ![t] = "spawn"]
            /\ UNCHANGED result
    /\ UNCHANGED <<current_process, cancel_requested, callVars, proc, nread,
                   output_lines, sink, exc, uiVars>>
    /\ UNCHANGED nonExecVars

\* subprocess.Popen(argv, stdout=PIPE, stderr=STDOUT): the process starts, or
\* Popen raises
Spawn(t) ==
    /\ pc[t] = "spawn"
    /\ \/ /\ proc' = [proc EXCEPT ![t] = [NoProc EXCEPT !.state = "alive", !.id = calls]]
          /\ current_process' = t
          /\ pc' = [pc EXCEPT ![t] = "poll"]
          /\ UNCHANGED exc
       \/ /\ exc' = [exc EXCEPT ![t] = "Exception"]
          /\ pc' = [pc EXCEPT ![t] = "except"]
          /\ UNCHANGED <<proc, current_process>>
    /\ UNCHANGED <<is_executing, cancel_requested, callVars, nread, output_lines,
                   sink, result, uiVars>>
    /\ UNCHANGED nonExecVars

(* ------------------------ executor: read loop --------------------------- *)

Pipe(t) == SubSeq(proc[t].emitted, nread[t] + 1, Len(proc[t].emitted))

\* the loop test: process.poll()
Poll(t) ==
    /\ pc[t] = "poll"
    /\ pc' = [pc EXCEPT ![t] = IF proc[t].state = "exited" THEN "drain" ELSE "read"]
    /\ UNCHANGED <<guardVars, callVars, proc, nread, output_lines, sink, exc,
                   result, uiVars>>
    /\ UNCHANGED nonExecVars

\* stdout.readline(): the next line; '' at end of file; on a silent live
\* process the wait runs into the timeout; or the read fails unexpectedly
ReadLine(t) ==
    /\ pc[t] = "read"
    /\ \/ /\ Pipe(t) # << >>
          /\ nread' = [nread EXCEPT ![t] = @ + 1]
          /\ pc' = [pc EXCEPT ![t] = "sink"]
          /\ UNCHANGED exc
       \/ /\ Pipe(t) = << >>
          /\ proc[t].state = "exited"
          /\ pc' = [pc EXCEPT ![t] = "poll"]
          /\ UNCHANGED <<nread, exc>>
       \/ /\ Pipe(t) = << >>
          /\ proc[t].state = "alive"
          /\ exc' = [exc EXCEPT ![t] = "TimeoutExpired"]
          /\ pc' = [pc EXCEPT ![t] = "except"]
          /\ UNCHANGED nread
       \/ /\ exc' = [exc EXCEPT ![t] = "Exception"]
          /\ pc' = [pc EXCEPT ![t] = "except"]
          /\ UNCHANGED nread
    /\ UNCHANGED <<guardVars, callVars, proc, output_lines, sink, result, uiVars>>
    /\ UNCHANGED nonExecVars

\* the line just read is captured and handed to the sink before the loop
\* goes round
SinkLine(t) ==
    /\ pc[t] = "sink"
    /\ LET r == ProcessLine(proc[t].emitted[nread[t]], output_lines[t], sink[t])
       IN  /\ output_lines' = [output_lines EXCEPT ![t] = r[1]]
           /\ sink' = [sink EXCEPT ![t] = r[2]]
    /\ pc' = [pc EXCEPT ![t] = "poll"]
    /\ UNCHANGED <<guardVars, callVars, proc, nread, exc, result, uiVars>>
    /\ UNCHANGED nonExecVars

\* communicate() after the loop: what the exited process left in the pipe
\* is handled line by line, like the lines before
Drain(t) ==
    /\ pc[t] = "drain"
    /\ IF Pipe(t) # << >>
       THEN LET r == ProcessLine(proc[t].emitted[nread[t] + 1], output_lines[t], sink[t])
            IN  /\ nread' = [nread EXCEPT ![t] = @ + 1]
                /\ output_lines' = [output_lines EXCEPT ![t] = r[1]]
                /\ sink' = [sink EXCEPT ![t] = r[2]]
                /\ UNCHANGED pc
       ELSE /\ pc' = [pc EXCEPT ![t] = "finish"]
            /\ UNCHANGED <<nread, output_lines, sink>>
    /\ UNCHANGED <<guardVars, callVars, proc, exc, result, uiVars>>
    /\ UNCHANGED nonExecVars

\* the return value of a call whose process ended
Finish(t) ==
    /\ pc[t] = "finish"
    /\ result' = [result EXCEPT ![t] =
                     CompletionResult(output_lines[t], proc[t].rc, cancel_requested)]
    /\ pc' = [pc EXCEPT ![t] = "finally"]
    /\ UNCHANGED <<guardVars, callVars, proc, nread, output_lines, sink, exc, uiVars>>
    /\ UNCHANGED nonExecVars

Killed(p, kills) == [p EXCEPT !.state = "exited", !.wkills = kills,
                              !.rc = IF p.state = "alive" THEN -9 ELSE p.rc]

\* the handlers at the executor boundary: the timeout handler kills the
\* process; the handler of any other exception leaves no process behind
Except(t) ==
    /\ pc[t] = "except"
    /\ IF ~CaughtAtBoundary(exc[t])
       THEN /\ pc' = [pc EXCEPT ![t] = "raised"]
            /\ UNCHANGED <<proc, result>>
       ELSE /\ pc' = [pc EXCEPT ![t] = "finally"]
            /\ IF exc[t] = "TimeoutExpired"
               THEN /\ proc' = [proc EXCEPT ![t] = Killed(@, KillOnTimeout(@.wkills))]
                    /\ result' = [result EXCEPT ![t] =
                                     TimeoutResult(output_lines[t], cancel_requested)]
               ELSE /\ proc' = [proc EXCEPT ![t] =
                                   IF @.state = "alive" THEN Killed(@, @.wkills + 1) ELSE @]
                    /\ result' = [result EXCEPT ![t] =
                                     ExceptionResult(output_lines[t], cancel_requested)]
    /\ UNCHANGED <<guardVars, callVars, nread, output_lines, sink, exc, uiVars>>
    /\ UNCHANGED nonExecVars

ReleasesUnlessTimeout(e) == e # "TimeoutExpired"

\* whether the cleanup releases the guard after this exception (or None)
Releases(e) == TRUE

\* the call is over: the caller has the tuple result[t], and the thread's
\* locals and its handle of the process are gone
ReturnToCaller(t) ==
    /\ pc' = [pc EXCEPT ![t] = "idle"]
    /\ argv' = [argv EXCEPT ![t] = << >>]
    /\ via' = [via EXCEPT ![t] = "direct"]
    /\ proc' = [proc EXCEPT ![t] = NoProc]
    /\ nread' = [nread EXCEPT ![t] = 0]
    /\ output_lines' = [output_lines EXCEPT ![t] = << >>]
    /\ sink' = [sink EXCEPT ![t] = << >>]
    /\ exc' = [exc EXCEPT ![t] = None]
    /\ result' = [result EXCEPT ![t] = NoResult]
    /\ UNCHANGED <<calls, uiVars>>

\* the finally block: the executor is Idle again, and the call returns
\* result[t]
Finally(t) ==
    /\ pc[t] = "finally"
    /\ IF Releases(exc[t])
       THEN /\ is_executing' = FALSE
            /\ current_process' = None
            /\ cancel_requested' = FALSE
       ELSE UNCHANGED guardVars
    /\ ReturnToCaller(t)
    /\ UNCHANGED nonExecVars

\* a rejected call returns result[t]
Return(t) ==
    /\ pc[t] = "done"
    /\ ReturnToCaller(t)
    /\ UNCHANGED guardVars
    /\ UNCHANGED nonExecVars

(* ------------------------ the subprocess -------------------------------- *)

workerVars == <<pc, nread, output_lines, sink, exc, result>>

\* the process writes one more line
Produce(t) ==
    /\ proc[t].state = "alive"
    /\ Len(proc[t].emitted) < MaxLines
    /\ \E l \in LineChoices(Len(proc[t].emitted) + 1) :
          proc' = [proc EXCEPT ![t].emitted = Append(@, l)]
    /\ UNCHANGED <<guardVars, callVars, workerVars, uiVars>>
    /\ UNCHANGED nonExecVars

\* the process exits by itself, with exit code 0 or 1
Exit(t) ==
    /\ proc[t].state = "alive"
    /\ \E c \in {0, 1} : proc' = [proc EXCEPT ![t].state = "exited", ![t].rc = c]
    /\ UNCHANGED <<guardVars, callVars, workerVars, uiVars>>
    /\ UNCHANGED nonExecVars

\* the process dies of the termination signal it was sent
TermDeath(t) ==
    /\ proc[t].state = "alive"
    /\ proc[t].terms > 0
    /\ proc' = [proc EXCEPT ![t].state = "exited", ![t].rc = -15]
    /\ UNCHANGED <<guardVars, callVars, workerVars, uiVars>>
    /\ UNCHANGED nonExecVars

(* -------------------- cancel_current_execution -------------------------- *)

NoTarget == <<None, 0>>

\* a held handle alone, whether or not its process still runs
CancellableWhenHeld == current_process # None

\* whether there is a running subprocess to cancel
Cancellable == current_process # None /\ proc[current_process].state = "alive"

\* cancel_current_execution(): terminate() the running process and wait for
\* it; without one, return False
Cancel ==
    /\ ui_pc = "idle"
    /\ cancels < MaxCancels
    /\ cancels' = cancels + 1
    /\ IF Cancellable
       THEN /\ proc' = [proc EXCEPT ![current_process].terms = @ + 1]
            /\ cancel_requested' = TRUE
            /\ ui_target' = <<current_process, proc[current_process].id>>
            /\ ui_pc' = "grace"
            /\ UNCHANGED cancel_result
       ELSE /\ cancel_result' = FALSE
            /\ UNCHANGED <<proc, cancel_requested, ui_target, ui_pc>>
    /\ UNCHANGED <<is_executing, current_process, callVars, workerVars>>
    /\ UNCHANGED nonExecVars

\* whether the process cancel holds a handle of is still running
TargetAlive ==
    /\ proc[ui_target[1]].id = ui_target[2]
    /\ proc[ui_target[1]].state = "alive"

\* the process ended within the grace window: cancel returns True
CancelJoin ==
    /\ ui_pc = "grace"
    /\ ~TargetAlive
    /\ ui_pc' = "idle"
    /\ ui_target' = NoTarget
    /\ cancel_result' = TRUE
    /\ UNCHANGED <<guardVars, callVars, workerVars, proc, cancels>>
    /\ UNCHANGED nonExecVars

\* the grace window ran out with the process alive: kill(), return True
CancelKill ==
    /\ ui_pc = "grace"
    /\ TargetAlive
    /\ proc' = [proc EXCEPT ![ui_target[1]].state = "exited", ![ui_target[1]].rc = -9,
                            ![ui_target[1]].ckills = @ + 1]
    /\ ui_pc' = "idle"
    /\ ui_target' = NoTarget
    /\ cancel_result' = TRUE
    /\ UNCHANGED <<guardVars, callVars, workerVars, cancels>>
    /\ UNCHANGED nonExecVars

(* -------------------- request_elevated_privileges ----------------------- *)

\* what the authorization service may answer to one check
Responses == {"approved", "denied", "dismissed"}

NoAuthResult == [authorized |-> FALSE, error |-> "unset"]

RetryWhileAtMost(made, n) == made <= n

\* the retry loop's test: another attempt is made while fewer than
\* max_retries were made
RetryWhile(made, n) == made < n

\* request_elevated_privileges(max_retries = n) is called
RequestPrivileges ==
    /\ auth_pc = "idle"
    /\ auth_requests < MaxRequests
    /\ \E n \in 0..MaxRetries : auth_n' = n
    /\ auth_requests' = auth_requests + 1
    /\ auth_log' = << >>
    /\ auth_result' = NoAuthResult
    /\ auth_pc' = "loop"
    /\ UNCHANGED <<auth_grants, auth_runs, nonAuthVars>>

\* one attempt: one CheckAuthorization call; an approval ends the loop
CheckAuthorization ==
    /\ auth_pc = "loop"
    /\ RetryWhile(Len(auth_log), auth_n)
    /\ \E r \in Responses :
         /\ auth_log' = Append(auth_log, r)
         /\ IF r = "approved"
            THEN /\ auth_result' = [authorized |-> TRUE, error |-> ""]
                 /\ auth_grants' = auth_grants + 1
                 /\ auth_pc' = "returned"
            ELSE UNCHANGED <<auth_result, auth_grants, auth_pc>>
    /\ UNCHANGED <<auth_n, auth_requests, auth_runs, nonAuthVars>>

\* the attempts are used up: the call returns not authorized
AuthorizationDenied ==
    /\ auth_pc = "loop"
    /\ ~RetryWhile(Len(auth_log), auth_n)
    /\ auth_result' = [authorized |-> FALSE, error |-> "Authorization denied"]
    /\ auth_pc' = "returned"
    /\ UNCHANGED <<auth_n, auth_log, auth_requests, auth_grants, auth_runs,
                   nonAuthVars>>

\* the caller, authorized, goes on to execute the privileged command
RunElevated ==
    /\ auth_pc = "returned"
    /\ auth_result.authorized
    /\ auth_runs' = auth_runs + 1
    /\ auth_pc' = "idle"
    /\ UNCHANGED <<auth_n, auth_log, auth_result, auth_requests, auth_grants,
                   nonAuthVars>>

\* the caller, denied, reports the denial and executes nothing
ReportDenial ==
    /\ auth_pc = "returned"
    /\ ~auth_result.authorized
    /\ auth_pc' = "idle"
    /\ UNCHANGED <<auth_n, auth_log, auth_result, auth_requests, auth_grants,
                   auth_runs, nonAuthVars>>

(* ----------------------- validate_command calls ------------------------- *)

NoValidation == [ok |-> FALSE, error |-> "unset"]

ToolArgs == {Str("rpm-ostree"), Str("bootc"), Str("rm"), Str("echo")}

SubcommandArgs ==
    {Str("status"), Str("rebase"), Str("rollback"), Str("uninstall"), Str("-rf")}

OtherArgs ==
    {GoodUrl, BadUrl, <<";", " ", "rm">>, Str("/"),
     <<"ghcr.io", "/", "ublue-os", "/", "bluefin">>}

\* arguments holding one character of the deny-set
DangerousArgs == {<<"image", c, "x">> : c \in DANGEROUS_CHARS}

\* the argument vectors validate_command is tried on
ValidationArgvs ==
    {<< >>}
    \cup {<<a>> : a \in ToolArgs}
    \cup {<<a, b>> : a \in ToolArgs, b \in SubcommandArgs}
    \cup {<<a, b, c>> : a \in ToolArgs, b \in SubcommandArgs, c \in OtherArgs}
    \cup {<<d>> : d \in DangerousArgs}
    \cup {<<a, d>> : a \in ToolArgs, d \in DangerousArgs}
    \cup {<<a, b, d>> : a \in ToolArgs, b \in SubcommandArgs, d \in DangerousArgs}
    \cup {<<a, b, GoodUrl, d>> : a \in TRUSTED_TOOLS,
                                 b \in {Str("status"), Str("rebase")},
                                 d \in DangerousArgs}

\* validate_command(argv) is called
ValidateCall ==
    /\ \E a \in ValidationArgvs :
         /\ v_argv' = a
         /\ v_result' = validate_command(a)
    /\ UNCHANGED <<u_url, u_result, u_cmd_result, nonValVars>>

UrlRegistries == {"ghcr.io", "quay.io", "registry.fedoraproject.org", "docker.io"}

UrlOrgs == {"ublue-os", "fedora-ostree-desktop", "fedora", "other-org"}

UrlImages == {"bluefin", "silverblue", "fedora-silverblue", "image"}

\* what follows the image name: a tag, no tag, an empty tag, and tags with
\* shell text in them
UrlTails ==
    {<<":", "latest">>, << >>, <<":">>, <<":", "..", "/", "etc">>,
     <<":", "latest", ";", " ", "echo">>, <<":", "latest", "|", "nc">>,
     <<":", "latest", "&", "&", "rm">>, <<":", "backtick", "id", "backtick">>,
     <<":", "$(", "whoami", ")">>, <<":", "$", "{", "VERSION", "}">>}

\* the image references validate_image_url is tried on
UrlChoices ==
    {<<r, "/", o, "/", i>> \o tl :
        r \in UrlRegistries, o \in UrlOrgs, i \in UrlImages, tl \in UrlTails}
    \cup {<<"localhost", ":", "5000", "/", "local", "/", "image", ":", "latest">>,
          <<"ghcr.io", "/", "ublue-os", "//", "bluefin", ":", "latest">>,
          <<"ghcr.io", "/", "ublue-os", "/", "/", "bluefin", ":", "latest">>}

\* validate_image_url(url) is called, and validate_command for a rebase to url
ValidateUrlCall ==
    /\ \E u \in UrlChoices :
         /\ u_url' = u
         /\ u_result' = validate_image_url(u)
         /\ u_cmd_result' = validate_command(RebaseCommand(u))
    /\ UNCHANGED <<v_argv, v_result, nonValVars>>

(* --------------------------- HistoryManager ----------------------------- *)
(* The history directory holds the history file and the temporary file     *)
(* _save_history writes.  A file is its existence, its text and its        *)
(* permission bits; a text is what json.load makes of it.                  *)

\* HistoryManager.MAX_ENTRIES
MAX_ENTRIES == 50

\* self.history_file
history_file == <<"command_history.json">>

TempFileInPlace(path) == path

\* temp_file = self.history_file + ".tmp"
temp_file(path) == Append(path, ".tmp")

Paths == {history_file, temp_file(history_file)}

\* the fields of the HistoryEntry dataclass without and with a default
RequiredFields == {"command", "timestamp", "success", "image_name", "operation_type"}

OptionalFields == {"user_id", "session_id", "error_message"}

EntryFields == RequiredFields \cup OptionalFields

\* the entry add_entry creates at time ts; an Optional field is the empty
\* set when it is None, and the set of its value otherwise
HistoryEntry(ts) ==
    [command |-> "rpm-ostree rebase", timestamp |-> ts, success |-> TRUE,
     image_name |-> "bluefin", operation_type |-> "rebase",
     user_id |-> {"uid"}, session_id |-> {}, error_message |-> {}]

\* HistoryEntry.to_dict: asdict(self)
to_dict(entry) == [f \in EntryFields |-> entry[f]]

\* a JSON value that is no object is the record of its one "scalar" field
IsMapping(data) == "scalar" \notin DOMAIN data

\* cls(**data) raises no TypeError: data is a mapping that names every
\* field without a default and no unknown field
from_dict_ok(data) ==
    /\ IsMapping(data)
    /\ RequiredFields \subseteq DOMAIN data
    /\ DOMAIN data \subseteq EntryFields

from_dict_RequiredOnly(data) ==
    [f \in EntryFields |-> IF f \in RequiredFields THEN data[f] ELSE {}]

\* HistoryEntry.from_dict: cls(**data), absent Optional fields are None
from_dict(data) == [f \in EntryFields |-> IF f \in DOMAIN data THEN data[f] ELSE {}]

\* JSON documents
ListDoc(items) == [type |-> "list", items |-> items]

NullDoc == [type |-> "null", items |-> << >>]

NumberDoc == [type |-> "number", items |-> << >>]

\* iterating a JSON object yields its keys, a string its characters
ObjectDoc == [type |-> "object", items |-> <<[scalar |-> "key"]>>]

StringDoc == [type |-> "string", items |-> <<[scalar |-> "a"], [scalar |-> "b"]>>]

\* the text json.dump(doc) has put into a file when it has written none,
\* part or all of it
json_dump(doc, written) == [kind |-> "json", doc |-> doc, written |-> written]

EmptyText == json_dump(NullDoc, "none")

GarbageText == [kind |-> "garbage", doc |-> NullDoc, written |-> "all"]

\* bytes that are no UTF-8 text
BinaryText == [kind |-> "binary", doc |-> NullDoc, written |-> "all"]

\* json.load(f): the document, or the exception it raises
json_load(text) ==
    IF text.kind = "binary" THEN [raised |-> "UnicodeDecodeError", doc |-> NullDoc]
    ELSE IF text.kind = "garbage" \/ text.written # "all"
    THEN [raised |-> "JSONDecodeError", doc |-> NullDoc]
    ELSE [raised |-> None, doc |-> text.doc]

\* permission bits
OwnerOnly == {"ur", "uw"}

\* the mode open(path, 'w') creates a file with under the usual umask
CreateMode == {"ur", "uw", "gr", "or"}

NoFile == [exists |-> FALSE, text |-> EmptyText, mode |-> {}]

FileOf(text, mode) == [exists |-> TRUE, text |-> text, mode |-> mode]

\* the exceptions of the read that _load_history does not catch: its except
\* clause names json.JSONDecodeError and IOError
LoadRaises(raised) == raised \notin {None, "JSONDecodeError", "IOError"}

\* _load_history(): the entries, or the exception that leaves it
_load_history(file) ==
    IF ~file.exists THEN [raised |-> None, entries |-> << >>]
    ELSE IF "ur" \notin file.mode
    THEN [raised |-> IF LoadRaises("IOError") THEN "IOError" ELSE None,
          entries |-> << >>]
    ELSE LET r == json_load(file.text)
             \* for entry_data in data: a null or a number cannot be iterated
             e == IF r.raised # None THEN r.raised
                  ELSE IF r.doc.type \in {"null", "number"} THEN "TypeError"
                  ELSE None
             ok == SelectSeq(r.doc.items, LAMBDA d : from_dict_ok(d))
         IN  IF e # None
             THEN [raised |-> IF LoadRaises(e) THEN e ELSE None, entries |-> << >>]
             ELSE [raised |-> None,
                   entries |-> [i \in 1..Len(ok) |-> from_dict(ok[i])]]

\* the states of a log sink in one call: it works, its module cannot be
\* imported, or the call into it raises
SinkStates == {"ok", "missing", "raises"}

NoLog == <<"ok", "ok">>

\* _log_to_journal(entry): "returned", or "raised" when an exception leaves
\* it; only ImportError is caught, for the journal and for syslog
_log_to_journal(journal, syslog) ==
    IF journal = "ok" THEN "returned"
    ELSE IF journal = "raises" THEN "raised"
    ELSE IF syslog = "raises" THEN "raised"
    ELSE "returned"

AppendLast(entry, entries) == Append(entries, entry)

\* entries.insert(0, entry)
Insert0(entry, entries) == <<entry>> \o entries

NoTruncate(entries) == entries

\* add_entry: if len(entries) > MAX_ENTRIES: entries = entries[:MAX_ENTRIES]
Truncate(entries) ==
    IF Len(entries) > MAX_ENTRIES THEN SubSeq(entries, 1, MAX_ENTRIES) ELSE entries

PruneSliceNone(entries) == entries

\* prune_old_entries: entries = entries[:self.MAX_ENTRIES]
PruneSlice(entries) == SubSeq(entries, 1, MAX_ENTRIES)

RemovedCountAll(original_count) == original_count

\* prune_old_entries: return original_count - self.MAX_ENTRIES
RemovedCount(original_count) == original_count - MAX_ENTRIES

KeepMode(mode) == mode

\* os.chmod(self.history_file, 0o600)
chmod_0o600(mode) == OwnerOnly

\* how a call ended: the call, the exception that left it, the value it
\* returned and whether _save_history met an IOError
NoRet == [op |-> "none", raised |-> None, value |-> 0, save_error |-> FALSE,
          log |-> NoLog]

histLocals == <<h_op, h_log, h_entry, h_loaded, h_entries, h_value>>

histCounters == <<h_clock, h_init, h_adds, h_clears, h_faults>>

\* the call returns (or is left by an exception): its locals are gone
HReturn(raised, value, save_error) ==
    /\ h_ret' = [op |-> h_op, raised |-> raised, value |-> value,
                 save_error |-> save_error, log |-> h_log]
    /\ h_pc' = "idle"
    /\ h_op' = "none"
    /\ h_log' = NoLog
    /\ h_entry' = << >>
    /\ h_loaded' = << >>
    /\ h_entries' = << >>
    /\ h_value' = 0

\* add_entry is called: the entry is created and logged
AddEntry ==
    /\ h_pc = "idle"
    /\ h_adds < MaxAdds
    /\ h_adds' = h_adds + 1
    /\ h_clock' = h_clock + 1
    /\ \E j \in SinkStates, s \in SinkStates :
         /\ j # "missing" => s = "ok"
         /\ IF _log_to_journal(j, s) = "raised"
            THEN /\ h_ret' = [op |-> "add", raised |-> "Exception", value |-> 0,
                              save_error |-> FALSE, log |-> <<j, s>>]
                 /\ UNCHANGED <<h_pc, histLocals>>
            ELSE /\ h_op' = "add"
                 /\ h_log' = <<j, s>>
                 /\ h_entry' = <<HistoryEntry(h_clock')>>
                 /\ h_pc' = "load"
                 /\ UNCHANGED <<h_loaded, h_entries, h_value, h_ret>>
    /\ UNCHANGED <<fs, h_init, h_clears, h_faults, nonHistVars>>

\* prune_old_entries is called
PruneOldEntries ==
    /\ h_pc = "idle"
    /\ h_op' = "prune"
    /\ h_pc' = "load"
    /\ UNCHANGED <<fs, h_log, h_entry, h_loaded, h_entries, h_value, h_ret,
                   histCounters, nonHistVars>>

\* clear_history is called: self._save_history([])
ClearHistory ==
    /\ h_pc = "idle"
    /\ h_clears < MaxClears
    /\ h_clears' = h_clears + 1
    /\ h_op' = "clear"
    /\ h_entries' = << >>
    /\ h_pc' = "open"
    /\ UNCHANGED <<fs, h_log, h_entry, h_loaded, h_value, h_ret, h_clock, h_init,
                   h_adds, h_faults, nonHistVars>>

\* entries = self._load_history(), and what add_entry and prune_old_entries
\* do with them up to the call of _save_history
LoadHistory ==
    /\ h_pc = "load"
    /\ LET r == _load_history(fs[history_file])
       IN  IF r.raised # None
           THEN HReturn(r.raised, 0, FALSE)
           ELSE IF h_op = "add"
           THEN /\ h_loaded' = r.entries
                /\ h_entries' = Truncate(Insert0(h_entry[1], r.entries))
                /\ h_pc' = "open"
                /\ UNCHANGED <<h_op, h_log, h_entry, h_value, h_ret>>
           ELSE IF Len(r.entries) > MAX_ENTRIES
           THEN /\ h_loaded' = r.entries
                /\ h_entries' = PruneSlice(r.entries)
                /\ h_value' = RemovedCount(Len(r.entries))
                /\ h_pc' = "open"
                /\ UNCHANGED <<h_op, h_log, h_entry, h_ret>>
           ELSE HReturn(None, 0, FALSE)
    /\ UNCHANGED <<fs, histCounters, nonHistVars>>

\* with open(temp_file, 'w') as f: the file is created, or emptied
SaveOpen ==
    /\ h_pc = "open"
    /\ LET tmp == temp_file(history_file)
       IN  fs' = [fs EXCEPT ![tmp] =
                     FileOf(EmptyText, IF fs[tmp].exists THEN fs[tmp].mode ELSE CreateMode)]
    /\ h_pc' = "dump"
    /\ UNCHANGED <<histLocals, h_ret, histCounters, nonHistVars>>

\* json.dump(data, f) has written a part of the text
SaveDump ==
    /\ h_pc = "dump"
    /\ LET tmp  == temp_file(history_file)
           data == [i \in 1..Len(h_entries) |-> to_dict(h_entries[i])]
       IN  fs' = [fs EXCEPT ![tmp].text = json_dump(ListDoc(data), "part")]
    /\ h_pc' = "close"
    /\ UNCHANGED <<histLocals, h_ret, histCounters, nonHistVars>>

\* json.dump has written all of the text and the file is closed
SaveClose ==
    /\ h_pc = "close"
    /\ LET tmp  == temp_file(history_file)
           data == [i \in 1..Len(h_entries) |-> to_dict(h_entries[i])]
       IN  fs' = [fs EXCEPT ![tmp].text = json_dump(ListDoc(data), "all")]
    /\ h_pc' = "replace"
    /\ UNCHANGED <<histLocals, h_ret, histCounters, nonHistVars>>

\* os.replace(temp_file, self.history_file)
SaveReplace ==
    /\ h_pc = "replace"
    /\ LET tmp == temp_file(history_file)
       IN  fs' = IF tmp = history_file THEN fs
                 ELSE [fs EXCEPT ![history_file] = fs[tmp], ![tmp] = NoFile]
    /\ h_pc' = "chmod"
    /\ UNCHANGED <<histLocals, h_ret, histCounters, nonHistVars>>

\* os.chmod(self.history_file, 0o600), and the call returns
SaveChmod ==
    /\ h_pc = "chmod"
    /\ fs' = [fs EXCEPT ![history_file].mode = chmod_0o600(@)]
    /\ HReturn(None, h_value, FALSE)
    /\ UNCHANGED <<histCounters, nonHistVars>>

SavePcs == {"open", "dump", "close", "replace", "chmod"}

\* a step of _save_history raises IOError: the handler removes the temporary
\* file if there is one, and the call returns as if it had saved
SaveFails ==
    /\ h_pc \in SavePcs
    /\ h_faults < MaxFaults
    /\ h_faults' = h_faults + 1
    /\ LET tmp == temp_file(history_file)
       IN  fs' = IF fs[tmp].exists THEN [fs EXCEPT ![tmp] = NoFile] ELSE fs
    /\ HReturn(None, h_value, TRUE)
    /\ UNCHANGED <<h_clock, h_init, h_adds, h_clears, nonHistVars>>

\* the process dies in the middle of a call; the files stay as they are
Crash ==
    /\ h_pc # "idle"
    /\ h_faults < MaxFaults
    /\ h_faults' = h_faults + 1
    /\ HReturn("crash", 0, FALSE)
    /\ UNCHANGED <<fs, h_clock, h_init, h_adds, h_clears, nonHistVars>>

\* well-formed entries stamped n, n-1, ..., 1: newest first
StoredEntries(n) == [i \in 1..n |-> to_dict(HistoryEntry(n + 1 - i))]

\* an object without the required fields, one with an unknown field, and a
\* number, as items of the stored list
MissingFieldsItem == [command |-> "rpm-ostree rebase", timestamp |-> 0]

ExtraFieldItem ==
    [command |-> "rpm-ostree rebase", timestamp |-> 0, success |-> TRUE,
     image_name |-> "bluefin", operation_type |-> "rebase", unknown |-> "x"]

ScalarItem == [scalar |-> "7"]

\* a list with well-formed entries between malformed items
MixedItems ==
    <<to_dict(HistoryEntry(3)), MissingFieldsItem, to_dict(HistoryEntry(2)),
      ScalarItem, ExtraFieldItem, to_dict(HistoryEntry(1))>>

\* the history files the manager may find
InitialFiles ==
    {NoFile,
     FileOf(GarbageText, OwnerOnly),
     FileOf(BinaryText, OwnerOnly),
     FileOf(json_dump(ListDoc(StoredEntries(2)), "part"), OwnerOnly),
     FileOf(json_dump(NullDoc, "all"), OwnerOnly),
     FileOf(json_dump(NumberDoc, "all"), OwnerOnly),
     FileOf(json_dump(ObjectDoc, "all"), OwnerOnly),
     FileOf(json_dump(StringDoc, "all"), OwnerOnly),
     FileOf(json_dump(ListDoc(MixedItems), "all"), OwnerOnly),
     FileOf(json_dump(ListDoc(StoredEntries(2)), "all"), {}),
     FileOf(json_dump(ListDoc(StoredEntries(2)), "all"), CreateMode)}
    \cup {FileOf(json_dump(ListDoc(StoredEntries(n)), "all"), OwnerOnly) :
            n \in {0, MAX_ENTRIES - 1, MAX_ENTRIES, MAX_ENTRIES + 2}}

(* ------------------------- HistoryEntry values -------------------------- *)

\* the entries a caller may build: every combination of outcome, operation
\* and present or absent (None) optional fields
HistoryEntries ==
    [command : {"rpm-ostree rebase"}, timestamp : {0, 1}, success : BOOLEAN,
     image_name : {"", "bluefin"}, operation_type : {"rebase", "rollback", "unknown"},
     user_id : {{}, {"uid"}}, session_id : {{}, {"s1"}},
     error_message : {{}, {"failed"}}]

\* entry.to_dict() and HistoryEntry.from_dict of the result; from_dict raises
\* TypeError on a dict it cannot take, and then there is no entry
EntryRoundTrip ==
    /\ \E e \in HistoryEntries :
         /\ e_entry' = <<e>>
         /\ e_dict' = <<to_dict(e)>>
         /\ e_back' = IF from_dict_ok(to_dict(e)) THEN <<from_dict(to_dict(e))>>
                      ELSE << >>
    /\ UNCHANGED nonEntryVars

(* --------------------------- ProgressTracker ---------------------------- *)
(* A text is the sequence of its characters: the letter "a", the blank, the *)
(* newline "NL" and "ESC", the two characters ESC [ that open a terminal    *)
(* control sequence.  The calls on a tracker are made one after the other.  *)

\* deque(maxlen=1000)
BUFFER_MAXLEN == 1000

TrackerChars == {"a", " ", "NL", "ESC"}

\* the chunks a caller hands to update_output: every text of at most two
\* characters
Chunks ==
    {<< >>} \cup {<<c>> : c \in TrackerChars}
            \cup {<<c, d>> : c \in TrackerChars, d \in TrackerChars}

\* a text of BUFFER_MAXLEN complete lines
BulkText == [i \in 1..(2 * BUFFER_MAXLEN) |-> IF i % 2 = 1 THEN "a" ELSE "NL"]

\* the chunks delivered around a thousand-line delivery
RingChunks == {<<"a", "NL">>, <<"a">>, <<"a", "NL", "a", "NL">>}

\* text.split('\n'): the pieces between the newlines, at least one piece;
\* the pieces of a text are those of its halves, the last piece of the first
\* half joined to the first piece of the second
RECURSIVE split(_)
split(text) ==
    IF Len(text) = 0 THEN << << >> >>
    ELSE IF Len(text) = 1
    THEN IF text[1] = "NL" THEN << << >>, << >> >> ELSE <<text>>
    ELSE LET h == Len(text) \div 2
             l == split(SubSeq(text, 1, h))
             r == split(SubSeq(text, h + 1, Len(text)))
         IN  SubSeq(l, 1, Len(l) - 1) \o <<l[Len(l)] \o r[1]>> \o Tail(r)

\* data.endswith('\n')
endswith_newline(data) == Len(data) > 0 /\ data[Len(data)] = "NL"

\* line.strip() is not empty
strip_nonempty(line) == \E i \in 1..Len(line) : line[i] \notin Whitespace

\* the length of the control sequence that starts at the head of text, or 0:
\* ESC [, then blanks (the intermediate bytes), then a letter (the final byte)
ControlSequenceLen(text) ==
    IF Len(text) = 0 \/ text[1] # "ESC" THEN 0
    ELSE LET ends == {k \in 2..Len(text) :
                        /\ text[k] = "a"
                        /\ \A j \in 2..(k - 1) : text[j] = " "}
         IN  IF ends = {} THEN 0 ELSE CHOOSE k \in ends : \A m \in ends : k <= m

\* _clean_ansi_codes(text): ansi_escape.sub('', text)
RECURSIVE _clean_ansi_codes(_)
_clean_ansi_codes(text) ==
    IF Len(text) = 0 THEN << >>
    ELSE LET n == ControlSequenceLen(text)
         IN  IF n > 0 THEN _clean_ansi_codes(SubSeq(text, n + 1, Len(text)))
             ELSE <<text[1]>> \o _clean_ansi_codes(Tail(text))

NeverIgnores(tracking) == FALSE

\* if not self.is_tracking: return
IgnoresCall(tracking) == ~tracking

PendingDropped(pending, data) == data

\* self.line_buffer += data
Pending(pending, data) == pending \o data

\* update_output: the new pending line and the complete lines, from the
\* pending line and the data
SplitLines(pending, data) ==
    LET lines == split(Pending(pending, data))
    IN  IF ~endswith_newline(data)
        THEN [line_buffer |-> lines[Len(lines)],
              lines |-> SubSeq(lines, 1, Len(lines) - 1)]
        ELSE [line_buffer |-> << >>, lines |-> lines]

\* for line in lines: if line.strip(): self._add_output_line(line)
LinesToAdd(lines) == SelectSeq(lines, strip_nonempty)

FlushNothing(pending) == << >>

\* complete: if self.line_buffer: self._add_output_line(self.line_buffer)
FlushPending(pending) == IF pending # << >> THEN <<pending>> ELSE << >>

BufferEntriesRaw(lines, now) ==
    [i \in 1..Len(lines) |-> [text |-> lines[i], timestamp |-> now + i]]

\* the buffer entries _add_output_line makes of lines, stamped from time now
BufferEntries(lines, now) ==
    [i \in 1..Len(lines) |->
        [text |-> _clean_ansi_codes(lines[i]), timestamp |-> now + i]]

deque_append_unbounded(buffer, entries) == buffer \o entries

\* self.output_buffer.append(...), for each entry: a deque of maxlen 1000
\* drops from the left
deque_append(buffer, entries) ==
    LET all == buffer \o entries
    IN  IF Len(all) > BUFFER_MAXLEN
        THEN SubSeq(all, Len(all) - BUFFER_MAXLEN + 1, Len(all))
        ELSE all

\* the scripts handed to GLib.idle_add
InitEvent(name, now) ==
    [kind |-> "initializeProgress", operation |-> name, text |-> << >>,
     timestamp |-> now, success |-> FALSE, lineCount |-> 0]

LineEvents(entries) ==
    [i \in 1..Len(entries) |->
        [kind |-> "updateProgress", operation |-> None, text |-> entries[i].text,
         timestamp |-> entries[i].timestamp, success |-> FALSE, lineCount |-> 0]]

CompletionEvent(name, success, elapsed, count) ==
    [kind |-> "completeProgress", operation |-> name, text |-> << >>,
     timestamp |-> elapsed, success |-> success, lineCount |-> count]

NoTrackerCall == [op |-> "none", tracking |-> FALSE]

\* a call is made on the tracker
TrackerCall(op) ==
    /\ t_calls < MaxTrackerCalls
    /\ t_calls' = t_calls + 1
    /\ t_last' = [op |-> op, tracking |-> is_tracking]

\* start_tracking(operation_name)
StartTracking ==
    /\ TrackerCall("start_tracking")
    /\ operation_name' = "op"
    /\ t_clock' = t_clock + 1
    /\ start_time' = {t_clock'}
    /\ output_buffer' = << >>
    /\ line_buffer' = << >>
    /\ is_tracking' = TRUE
    /\ js_queue' = Append(js_queue, InitEvent("op", t_clock'))
    /\ t_text' = << >>
    /\ t_lines' = << >>
    /\ UNCHANGED <<t_bulks, nonTrackerVars>>

\* update_output(data)
UpdateWith(data) ==
    /\ TrackerCall("update_output")
    /\ IF IgnoresCall(is_tracking)
       THEN UNCHANGED <<trackerState, t_clock, t_text, t_lines>>
       ELSE LET r == SplitLines(line_buffer, data)
                entries == BufferEntries(LinesToAdd(r.lines), t_clock)
            IN  /\ line_buffer' = r.line_buffer
                /\ output_buffer' = deque_append(output_buffer, entries)
                /\ js_queue' = js_queue \o LineEvents(entries)
                /\ t_clock' = t_clock + Len(entries)
                /\ t_text' = t_text \o data
                /\ t_lines' = t_lines \o entries
                /\ UNCHANGED <<operation_name, start_time, is_tracking>>
    /\ UNCHANGED <<nonTrackerVars>>

UpdateOutput ==
    /\ \E data \in Chunks : UpdateWith(data)
    /\ UNCHANGED t_bulks

\* update_output with the chunks of a long operation
UpdateOutputLines ==
    /\ \E data \in RingChunks : UpdateWith(data)
    /\ UNCHANGED t_bulks

UpdateOutputBulk ==
    /\ t_bulks < MaxBulks
    /\ t_bulks' = t_bulks + 1
    /\ UpdateWith(BulkText)

\* complete(success)
Complete ==
    /\ TrackerCall("complete")
    /\ IF IgnoresCall(is_tracking)
       THEN UNCHANGED <<trackerState, t_clock, t_text, t_lines>>
       ELSE \E success \in BOOLEAN :
              LET entries == BufferEntries(FlushPending(line_buffer), t_clock)
                  buffer  == deque_append(output_buffer, entries)
                  now     == t_clock + Len(entries) + 1
                  elapsed == IF start_time = {} THEN 0
                             ELSE now - (CHOOSE t \in start_time : TRUE)
              IN  /\ output_buffer' = buffer
                  /\ line_buffer' = << >>
                  /\ is_tracking' = FALSE
                  /\ t_clock' = now
                  /\ js_queue' = (js_queue \o LineEvents(entries)) \o
                        <<CompletionEvent(operation_name, success, elapsed,
                                          Len(buffer))>>
                  /\ t_lines' = t_lines \o entries
                  /\ UNCHANGED <<operation_name, start_time, t_text>>
    /\ UNCHANGED <<t_bulks, nonTrackerVars>>

\* clear()
ClearTracker ==
    /\ TrackerCall("clear")
    /\ operation_name' = None
    /\ start_time' = {}
    /\ output_buffer' = << >>
    /\ line_buffer' = << >>
    /\ is_tracking' = FALSE
    /\ t_lines' = << >>
    /\ UNCHANGED <<js_queue, t_clock, t_text, t_bulks,
                   nonTrackerVars>>

(* --------------------------- RegistryManager ---------------------------- *)
(* A registry, an image name and a tag are token sequences, a branch is one *)
(* token.  Time is counted in minutes, the dates of the tags in days.       *)

\* timedelta(minutes=5)
TTL_MINUTES == 5

\* datetime.now(), as a day number
Today == 100

\* the (registry, image, branch) queries a caller makes: an image on two
\* branches, and the same repository named with the organisation as a part
\* of the registry or as a part of the image
Triples ==
    {[registry |-> <<"ghcr.io", "/", "ublue-os">>, image |-> <<"bazzite">>,
      branch |-> "stable"],
     [registry |-> <<"ghcr.io", "/", "ublue-os">>, image |-> <<"bazzite">>,
      branch |-> "testing"],
     [registry |-> <<"ghcr.io">>, image |-> <<"ublue-os", "/", "bazzite">>,
      branch |-> "stable"]}

\* cache_key = f"{registry}/{image}:{branch}"
cache_key(registry, image, branch) ==
    registry \o <<"/">> \o image \o <<":">> \o <<branch>>

KeyOf(t) == cache_key(t.registry, t.image, t.branch)

CacheKeys == {KeyOf(t) : t \in Triples}

NoCacheEntry == [present |-> FALSE, time |-> 0, data |-> << >>]

CacheEntry(now, images) == [present |-> TRUE, time |-> now, data |-> images]

\* tokens that are runs of digits, and those of eight digits that
\* strptime(date_str, "%Y%m%d") accepts, with the day they name
DigitTokens == {"41", "20240722", "20240801", "20249999"}

DateDay == [d \in {"20240722", "20240801"} |-> IF d = "20240722" THEN 60 ELSE 70]

\* _parse_date_from_tag(tag): the first run of eight digits, if it is a date
_parse_date_from_tag(tag) ==
    LET runs == {i \in 1..Len(tag) : tag[i] \in DigitTokens \ {"41"}}
    IN  IF runs = {} THEN {}
        ELSE LET first == tag[CHOOSE i \in runs : \A j \in runs : i <= j]
             IN  IF first \in DOMAIN DateDay THEN {DateDay[first]} ELSE {}

\* re.match(r'^\d+-' + word, tag)
MatchesVersioned(tag, word) ==
    Len(tag) >= 3 /\ tag[1] \in DigitTokens /\ tag[2] = "-" /\ tag[3] = word

\* the branch filter of list_image_tags
BranchMatches(branch, tag) ==
    \/ branch = "all"
    \/ branch = "stable" /\ (tag = <<"stable">> \/ MatchesVersioned(tag, "stable"))
    \/ branch = "testing" /\ (tag = <<"testing">> \/ MatchesVersioned(tag, "testing"))
    \/ Len(tag) > 0 /\ tag[1] = branch

RegistryImage(registry, image, tag) ==
    [name |-> image, tag |-> tag, registry |-> registry,
     date |-> _parse_date_from_tag(tag)]

\* x.date or datetime.min
SortKey(img) == IF img.date = {} THEN 0 ELSE CHOOSE d \in img.date : TRUE

\* images.sort(key=..., reverse=True): a stable sort, newest first
RECURSIVE SortNewestFirst(_)
SortNewestFirst(images) ==
    IF Len(images) <= 1 THEN images
    ELSE LET last == images[Len(images)]
             rest == SortNewestFirst(SubSeq(images, 1, Len(images) - 1))
             ahead == {i \in 1..Len(rest) : SortKey(rest[i]) >= SortKey(last)}
             n == Cardinality(ahead)
         IN  SubSeq(rest, 1, n) \o <<last>> \o SubSeq(rest, n + 1, Len(rest))

\* what the listing tool reports
ToolTagLists ==
    {<< >>,
     <<<<"stable">>, <<"41", "-", "stable", "-", "20240722">>, <<"testing">>,
       <<"stable", "-", "20240801">>, <<"41", "-", "testing", "-", "20249999">>>>}

\* how one run of the listing tool ends: it lists tags, or exits non-zero,
\* or runs into the timeout, or is not installed, or prints what is no JSON
\* or no JSON object
ToolFailures ==
    {"nonzero", "TimeoutExpired", "FileNotFoundError", "JSONDecodeError",
     "AttributeError"}

ToolOutcomes ==
    {[kind |-> "ok", tags |-> l] : l \in ToolTagLists}
    \cup {[kind |-> k, tags |-> << >>] : k \in ToolFailures}

RegistryCatchesTimeoutOnly(e) == e = "TimeoutExpired"

\* except subprocess.TimeoutExpired / except Exception
RegistryCatches(e) == TRUE

\* the cache entry is fresh: datetime.now() - cached_time < timedelta(minutes=5)
Fresh(entry, now) == entry.present /\ now - entry.time < TTL_MINUTES

\* list_image_tags(registry, image, branch) at time now, the tool ending
\* with outcome if it is run: whether it was run, the list returned, the
\* exception that leaves the call, and the cache afterwards
list_image_tags(c, now, t, outcome) ==
    LET key == KeyOf(t)
    IN  IF Fresh(c[key], now)
        THEN [invoked |-> FALSE, value |-> c[key].data, raised |-> None, cache |-> c]
        ELSE IF outcome.kind = "nonzero"
        THEN [invoked |-> TRUE, value |-> << >>, raised |-> None, cache |-> c]
        ELSE IF outcome.kind # "ok"
        THEN [invoked |-> TRUE, value |-> << >>,
              raised |-> IF RegistryCatches(outcome.kind) THEN None ELSE outcome.kind,
              cache |-> c]
        ELSE LET tags == SelectSeq(outcome.tags, LAMBDA g : BranchMatches(t.branch, g))
                 images == SortNewestFirst(
                              [i \in 1..Len(tags) |->
                                  RegistryImage(t.registry, t.image, tags[i])])
             IN  [invoked |-> TRUE, value |-> images, raised |-> None,
                  cache |-> [c EXCEPT ![key] = CacheEntry(now, images)]]

\* len(recent_images) < 20
UNDATED_LIMIT == 20

RECURSIVE RecentOfUnlimited(_, _)
RecentOfUnlimited(all_images, cutoff) ==
    IF Len(all_images) = 0 THEN << >>
    ELSE LET img == all_images[Len(all_images)]
             recent == RecentOfUnlimited(SubSeq(all_images, 1, Len(all_images) - 1),
                                         cutoff)
         IN  IF img.date = {} \/ SortKey(img) >= cutoff THEN Append(recent, img)
             ELSE recent

\* the loop of get_recent_images over all_images
RECURSIVE RecentOf(_, _)
RecentOf(all_images, cutoff) ==
    IF Len(all_images) = 0 THEN << >>
    ELSE LET img == all_images[Len(all_images)]
             recent == RecentOf(SubSeq(all_images, 1, Len(all_images) - 1), cutoff)
         IN  IF img.date # {} /\ SortKey(img) >= cutoff THEN Append(recent, img)
             ELSE IF img.date = {} /\ Len(recent) < UNDATED_LIMIT
             THEN Append(recent, img)
             ELSE recent

\* the values of days callers pass
DaysChoices == {35, 90}

NoQuery ==
    [op |-> "none", triple |-> << >>, invoked |-> FALSE, outcome |-> "none",
     listed |-> << >>, value |-> << >>, raised |-> None]

\* a query is made, and the tool ends with outcome if the query runs it
QueryMade(op, t, outcome, r, value) ==
    /\ r_queries < MaxQueries
    /\ r_queries' = r_queries + 1
    /\ cache' = r.cache
    /\ r_fetched' = IF r.invoked /\ outcome.kind = "ok" /\ r.raised = None
                    THEN [r_fetched EXCEPT ![t] = CacheEntry(r_clock, r.value)]
                    ELSE r_fetched
    /\ r_last' = [op |-> op, triple |-> <<t>>, invoked |-> r.invoked,
                  outcome |-> IF r.invoked THEN outcome.kind ELSE "none",
                  listed |-> r.value, value |-> value, raised |-> r.raised]
    /\ UNCHANGED <<r_clock, nonRegistryVars>>

\* list_image_tags is called
ListImageTags ==
    \E t \in Triples, outcome \in ToolOutcomes :
       LET r == list_image_tags(cache, r_clock, t, outcome)
       IN  /\ QueryMade("list_image_tags", t, outcome, r, r.value)
           /\ r_days' = 0

\* get_recent_images is called
GetRecentImages ==
    \E t \in Triples, outcome \in ToolOutcomes, days \in DaysChoices :
       LET r == list_image_tags(cache, r_clock, t, outcome)
       IN  /\ QueryMade("get_recent_images", t, outcome, r,
                        IF r.raised = None THEN RecentOf(r.value, Today - days)
                        ELSE << >>)
           /\ r_days' = days

\* the builds of one day, and of no day
Builds ==
    <<"b01", "b02", "b03", "b04", "b05", "b06", "b07", "b08", "b09", "b10",
      "b11", "b12", "b13", "b14", "b15", "b16", "b17", "b18", "b19", "b20",
      "b21", "b22", "b23", "b24", "b25">>

\* m tags of the stable branch that carry no date, then n that carry the
\* date
ManyTags(date, n, m) ==
    [i \in 1..(m + n) |->
        IF i <= m THEN <<"stable", "-", Builds[i]>>
        ELSE <<"stable", "-", date, ".", Builds[i - m]>>]

\* what the listing tool reports of a repository with many tags
LongTagLists ==
    {ManyTags("20240801", 22, 3) \o <<<<"stable", "-", "20240722">>>>,
     ManyTags("20240722", 2, 25) \o <<<<"41", "-", "stable", "-", "20240801">>>>,
     ManyTags("20240801", 0, 25),
     ManyTags("20240801", 19, 2)}

\* get_recent_images is called on a repository with many tags
GetRecentImagesLong ==
    \E t \in Triples, tags \in LongTagLists, days \in DaysChoices :
       LET outcome == [kind |-> "ok", tags |-> tags]
           r == list_image_tags(cache, r_clock, t, outcome)
       IN  /\ QueryMade("get_recent_images", t, outcome, r,
                        RecentOf(r.value, Today - days))
           /\ r_days' = days

\* a minute passes
RegistryTick ==
    /\ r_clock < MaxClock
    /\ r_clock' = r_clock + 1
    /\ UNCHANGED <<cache, r_fetched, r_last, r_queries, r_days, nonRegistryVars>>

(* -------------------------- DeploymentManager --------------------------- *)
(* deployment_manager.py is not among the source files: the manager is      *)
(* modelled from the specification and from what its tests pin.  A checksum *)
(* is the pair of its first twelve characters and the rest.                 *)

\* the deployments the status tool may report: the entry's checksum, and
\* whether it is booted and pinned
RawDeployment(c, booted, pinned) ==
    [checksum |-> <<c, "7890abcdef">>, origin |-> "ghcr.io/ublue-os/bluefin:latest",
     version |-> "40.20240720.0", timestamp |-> "1721500000",
     booted |-> booted, pinned |-> pinned]

Checksums == <<"abcdef123456", "1234567890ab", "fedcba098765", "0f1e2d3c4b5a">>

\* a status of n deployments of which the b-th is booted (none if b = 0)
\* and the last is pinned or not
Snapshot(n, b, pinned) ==
    [i \in 1..n |-> RawDeployment(Checksums[i], i = b, pinned /\ i = n)]

\* a status whose entries lack fields
MinimalSnapshot ==
    <<[checksum |-> <<"minimal12345", "67890">>, booted |-> TRUE],
      [origin |-> "some-image:latest", version |-> "unknown"]>>

Snapshots ==
    {Snapshot(n, b, pinned) : n \in 1..4, b \in 0..2, pinned \in BOOLEAN}
    \cup {MinimalSnapshot}

\* how rpm-ostree status --json ends
StatusFailures == {"FileNotFoundError", "nonzero", "TimeoutExpired", "JSONDecodeError"}

StatusOutcomes ==
    {[kind |-> "ok", deployments |-> d] : d \in Snapshots}
    \cup {[kind |-> k, deployments |-> << >>] : k \in StatusFailures}

\* Deployment.from_json(data, index)
from_json(data, index) ==
    [id |-> IF "checksum" \in DOMAIN data THEN data.checksum[1] ELSE "",
     origin |-> IF "origin" \in DOMAIN data THEN data.origin ELSE "Unknown",
     version |-> IF "version" \in DOMAIN data THEN data.version ELSE "Unknown",
     timestamp |-> IF "timestamp" \in DOMAIN data
                   THEN <<"formatted", data.timestamp>> ELSE <<"Unknown">>,
     is_booted |-> IF "booted" \in DOMAIN data THEN data.booted ELSE FALSE,
     is_pinned |-> IF "pinned" \in DOMAIN data THEN data.pinned ELSE FALSE,
     index |-> index]

DemoIds == <<"demo12345678", "demo87654321", "demoabcdef12">>

\* the fixed demo dataset
_get_demo_deployments ==
    [i \in 1..3 |->
        [id |-> DemoIds[i], origin |-> "ghcr.io/ublue-os/bluefin:latest",
         version |-> "demo", timestamp |-> <<"demo">>, is_booted |-> i = 1,
         is_pinned |-> FALSE, index |-> i - 1]]

FallsBackWhenMissingOnly(kind) == kind = "FileNotFoundError"

\* the failures of the status query that get_all_deployments answers with
\* the demo dataset
FallsBack(kind) == kind # "ok"

\* get_all_deployments(): the list, the demo flag, and the exception that
\* leaves the call
get_all_deployments(outcome) ==
    IF outcome.kind = "ok"
    THEN [deployments |-> [i \in 1..Len(outcome.deployments) |->
                              from_json(outcome.deployments[i], i - 1)],
          is_demo |-> FALSE, raised |-> None]
    ELSE IF FallsBack(outcome.kind)
    THEN [deployments |-> _get_demo_deployments, is_demo |-> TRUE, raised |-> None]
    ELSE [deployments |-> << >>, is_demo |-> FALSE, raised |-> outcome.kind]

NoCommand == [some |-> FALSE, argv |-> << >>]

Command(args) == [some |-> TRUE, argv |-> args]

IsSecondInList(deployment, booted) == deployment.index = 1

\* the deployment is the one immediately behind the booted one
IsPrevious(deployment, booted) ==
    \E i \in 1..Len(booted) : deployment.index = booted[i].index + 1

\* generate_rollback_command(deployment_id) over the deployments of a
\* fresh status query
generate_rollback_command(deployments, deployment_id) ==
    LET found  == SelectSeq(deployments, LAMBDA d : d.id = deployment_id)
        booted == SelectSeq(deployments, LAMBDA d : d.is_booted)
    IN  IF Len(found) = 0 THEN NoCommand
        ELSE IF found[1].is_booted THEN NoCommand
        ELSE IF IsPrevious(found[1], booted)
        THEN Command(<<"rpm-ostree", "rollback">>)
        ELSE Command(<<"rpm-ostree", "deploy", deployment_id>>)

\* the ids callers ask for: reported ones, a demo one, and an unknown one
TargetIds ==
    {Checksums[i] : i \in 1..4} \cup {DemoIds[1], DemoIds[2], "nonexistent"}

NoDeploymentCall ==
    [op |-> "none", outcome |-> "none", reported |-> << >>, deployments |-> << >>,
     is_demo |-> FALSE, raised |-> None, id |-> "", command |-> NoCommand]

DeploymentCall ==
    /\ d_calls < MaxDeploymentCalls
    /\ d_calls' = d_calls + 1
    /\ UNCHANGED nonDeploymentVars

\* get_all_deployments is called
GetAllDeployments ==
    /\ DeploymentCall
    /\ \E outcome \in StatusOutcomes :
         LET r == get_all_deployments(outcome)
         IN  d_last' = [op |-> "get_all_deployments", outcome |-> outcome.kind,
                        reported |-> outcome.deployments,
                        deployments |-> r.deployments, is_demo |-> r.is_demo,
                        raised |-> r.raised, id |-> "", command |-> NoCommand]

\* generate_rollback_command is called
GenerateRollbackCommand ==
    /\ DeploymentCall
    /\ \E outcome \in StatusOutcomes, id \in TargetIds :
         LET r == get_all_deployments(outcome)
         IN  d_last' = [op |-> "generate_rollback_command", outcome |-> outcome.kind,
                        reported |-> outcome.deployments,
                        deployments |-> r.deployments, is_demo |-> r.is_demo,
                        raised |-> r.raised, id |-> id,
                        command |-> IF r.raised = None
                                    THEN generate_rollback_command(r.deployments, id)
                                    ELSE NoCommand]

(* ---------------------- generate_security_report ------------------------ *)

\* entries[:10]
RECENT_LIMIT == 10

\* a failed entry with an error message, or with none
FailedEntry(ts, message) ==
    [HistoryEntry(ts) EXCEPT !.success = FALSE, !.error_message = message]

\* a store of n entries, newest first, whose entries at the positions of
\* failed are failures
ReportStore(n, failed) ==
    [i \in 1..n |->
        to_dict(IF i \in failed
                THEN FailedEntry(n + 1 - i, IF i % 2 = 1 THEN {"timeout"} ELSE {})
                ELSE HistoryEntry(n + 1 - i))]

ReportFiles ==
    {FileOf(json_dump(ListDoc(ReportStore(n, failed)), "all"), OwnerOnly) :
        n \in {12, 13}, failed \in SUBSET {1, 2, 10, 11, 12} \cup {1..12}}
    \cup {NoFile, FileOf(json_dump(ListDoc(MixedItems), "all"), OwnerOnly)}

\* one item of recent_failures
FailureItem(entry) ==
    [timestamp |-> <<"formatted", entry.timestamp>>,
     command |-> entry.command,
     error |-> IF entry.error_message = {} THEN {"Unknown error"}
               ELSE entry.error_message,
     user |-> IF entry.user_id = {} THEN {"unknown"} ELSE entry.user_id]

\* for entry in entries[:10] if not entry.success
RecentFailures(entries) ==
    SelectSeq(SubSeq(entries, 1, IF Len(entries) < RECENT_LIMIT THEN Len(entries)
                                 ELSE RECENT_LIMIT),
              LAMBDA e : ~e.success)

\* generate_security_report(): the summary counts and recent_failures, or
\* the exception that leaves it
generate_security_report(file) ==
    LET r == _load_history(file)
        failures == RecentFailures(r.entries)
    IN  [raised |-> r.raised,
         total_commands |-> Len(r.entries),
         failed |-> Len(SelectSeq(r.entries, LAMBDA e : ~e.success)),
         recent_failures |-> [i \in 1..Len(failures) |-> FailureItem(failures[i])]]

NoReport ==
    [called |-> FALSE, raised |-> None, total_commands |-> 0, failed |-> 0,
     recent_failures |-> << >>]

\* generate_security_report is called
GenerateSecurityReport ==
    /\ rep_calls < MaxReports
    /\ rep_calls' = rep_calls + 1
    /\ LET r == generate_security_report(fs[history_file])
       IN  rep_last' = [called |-> TRUE, raised |-> r.raised,
                        total_commands |-> r.total_commands, failed |-> r.failed,
                        recent_failures |-> r.recent_failures]
    /\ UNCHANGED nonReportVars

(* ----------------------- overlapping add_entry -------------------------- *)
(* Two threads call add_entry on one HistoryManager.  A path of the        *)
(* directory names an inode, an open file refers to the inode it was       *)
(* opened on, also after the path was renamed.                             *)

Threads == {1, 2}

Inodes == 1..(MaxThreadAdds + 1)

\* the history files the threads find
ThreadFiles ==
    {NoFile} \cup {FileOf(json_dump(ListDoc(StoredEntries(n)), "all"), OwnerOnly) :
                      n \in {1, MAX_ENTRIES}}

\* the file a path names
FileAt(path) ==
    IF a_dir[path] = 0 THEN NoFile ELSE FileOf(a_ino[a_dir[path]], OwnerOnly)

\* add_entry is called by thread t: the entry is created and logged
ThreadAdd(t) ==
    /\ a_pc[t] = "idle"
    /\ a_adds < MaxThreadAdds
    /\ a_adds' = a_adds + 1
    /\ a_clock' = a_clock + 1
    /\ a_new' = [a_new EXCEPT ![t] = <<HistoryEntry(a_clock')>>]
    /\ a_pc' = [a_pc EXCEPT ![t] = "load"]
    /\ UNCHANGED <<a_list, a_fd, a_dir, a_ino, a_next, a_done, nonAddVars>>

\* entries = self._load_history(); entries.insert(0, entry); the cap
ThreadLoad(t) ==
    /\ a_pc[t] = "load"
    /\ LET r == _load_history(FileAt(history_file))
       IN  IF r.raised # None
           THEN /\ a_pc' = [a_pc EXCEPT ![t] = "idle"]
                /\ a_new' = [a_new EXCEPT ![t] = << >>]
                /\ UNCHANGED a_list
           ELSE /\ a_list' = [a_list EXCEPT ![t] = Truncate(Insert0(a_new[t][1], r.entries))]
                /\ a_pc' = [a_pc EXCEPT ![t] = "open"]
                /\ UNCHANGED a_new
    /\ UNCHANGED <<a_fd, a_dir, a_ino, a_next, a_clock, a_done, a_adds, nonAddVars>>

\* with open(temp_file, 'w') as f: the file is created, or the file the
\* path names is emptied
ThreadOpen(t) ==
    /\ a_pc[t] = "open"
    /\ LET tmp == temp_file(history_file)
           ino == IF a_dir[tmp] = 0 THEN a_next ELSE a_dir[tmp]
       IN  /\ a_dir' = [a_dir EXCEPT ![tmp] = ino]
           /\ a_next' = IF a_dir[tmp] = 0 THEN a_next + 1 ELSE a_next
           /\ a_ino' = [a_ino EXCEPT ![ino] = EmptyText]
           /\ a_fd' = [a_fd EXCEPT ![t] = ino]
    /\ a_pc' = [a_pc EXCEPT ![t] = "dump"]
    /\ UNCHANGED <<a_new, a_list, a_clock, a_done, a_adds, nonAddVars>>

\* what a file holds after text was written from its start over what it
\* held: the text, or a mix of the two that is no JSON
Overwritten(held, items) ==
    LET text == json_dump(ListDoc(items), "all")
    IN  IF held = EmptyText \/ held.kind # "json" THEN {text}
        ELSE IF Len(held.doc.items) < Len(items) THEN {text}
        ELSE IF Len(held.doc.items) > Len(items) THEN {GarbageText}
        ELSE {text, GarbageText}

\* json.dump(data, f, indent=2), and the file is closed
ThreadDump(t) ==
    /\ a_pc[t] = "dump"
    /\ LET data == [i \in 1..Len(a_list[t]) |-> to_dict(a_list[t][i])]
       IN  \E text \in Overwritten(a_ino[a_fd[t]], data) :
              a_ino' = [a_ino EXCEPT ![a_fd[t]] = text]
    /\ a_fd' = [a_fd EXCEPT ![t] = 0]
    /\ a_pc' = [a_pc EXCEPT ![t] = "replace"]
    /\ UNCHANGED <<a_new, a_list, a_dir, a_next, a_clock, a_done, a_adds, nonAddVars>>

\* the call of thread t returns
ThreadReturns(t) ==
    /\ a_pc' = [a_pc EXCEPT ![t] = "idle"]
    /\ a_done' = a_done \cup {a_new[t][1]}
    /\ a_new' = [a_new EXCEPT ![t] = << >>]
    /\ a_list' = [a_list EXCEPT ![t] = << >>]

\* os.replace(temp_file, self.history_file); when the temporary file is
\* gone it raises FileNotFoundError, which except IOError catches
ThreadReplace(t) ==
    /\ a_pc[t] = "replace"
    /\ LET tmp == temp_file(history_file)
       IN  IF a_dir[tmp] = 0
           THEN /\ ThreadReturns(t)
                /\ UNCHANGED a_dir
           ELSE /\ a_dir' = [a_dir EXCEPT ![history_file] = a_dir[tmp], ![tmp] = 0]
                /\ a_pc' = [a_pc EXCEPT ![t] = "chmod"]
                /\ UNCHANGED <<a_new, a_list, a_done>>
    /\ UNCHANGED <<a_fd, a_ino, a_next, a_clock, a_adds, nonAddVars>>

\* os.chmod(self.history_file, 0o600), and the call returns
ThreadChmod(t) ==
    /\ a_pc[t] = "chmod"
    /\ ThreadReturns(t)
    /\ UNCHANGED <<a_fd, a_dir, a_ino, a_next, a_clock, a_adds, nonAddVars>>

(* ------------------------ _analyze_error_type --------------------------- *)

\* phrases that decide nothing
OtherPhrases == {"error", "while pulling", "host"}

\* the outputs of failed commands: up to two lines of one phrase, and the
\* lookup failure that names a network cause and says "no such"
ErrorOutputs ==
    LET words == NetworkPhrases \cup AuthPhrases \cup BusyPhrases
                   \cup NotFoundPhrases \cup OtherPhrases
    IN  {<< >>} \cup {<<<<w>>>> : w \in words}
                \cup {<<<<v>>, <<w>>>> : v \in words, w \in words}
                \cup {<<<<"error", "while pulling", "dial tcp", "no such", "host">>>>}

NoAnalysis == [called |-> FALSE, output |-> << >>, exit_code |-> 0, kind |-> ""]

\* _analyze_error_type is called for a command that exited non-zero
AnalyzeErrorType ==
    /\ \E output \in ErrorOutputs, exit_code \in {1, 2, 127} :
         an_last' = [called |-> TRUE, output |-> output, exit_code |-> exit_code,
                     kind |-> _analyze_error_type(output, exit_code)]
    /\ UNCHANGED nonAnalyzeVars

(* ------------------- OS manager: generate_rebase_url -------------------- *)

GpuSuffixes == [AMD |-> << >>, NVIDIA |-> <<"-nvidia">>, Intel |-> << >>]

NoGpuSuffixes == [AMD |-> << >>, NVIDIA |-> << >>, Intel |-> << >>]

\* gpu_variants: None
NoGpuVariants == << >>

\* one entry of a "variants" table; a key the entry lacks reads as None
Variant(gamemode_target, dx_target, gpu_variants) ==
    [gamemode_target |-> gamemode_target, dx_target |-> dx_target,
     gpu_variants |-> gpu_variants]

BAZZITE_CONFIG ==
    [base_url |-> <<"ostree-image-signed:docker://ghcr.io/ublue-os/", "bazzite">>,
     variants |->
        [v \in {"bazzite", "bazzite-nvidia", "bazzite-gnome", "bazzite-gnome-nvidia",
                "bazzite-deck", "bazzite-deck-nvidia", "bazzite-deck-gnome",
                "bazzite-asus", "bazzite-dx", "bazzite-dx-nvidia",
                "bazzite-dx-gnome", "bazzite-dx-nvidia-gnome"} |->
           CASE v = "bazzite" -> Variant("bazzite-deck", "bazzite-dx", GpuSuffixes)
             [] v = "bazzite-nvidia" ->
                   Variant("bazzite-deck-nvidia", "bazzite-dx-nvidia", NoGpuSuffixes)
             [] v = "bazzite-gnome" ->
                   Variant("bazzite-deck-gnome", "bazzite-dx-gnome", GpuSuffixes)
             [] v = "bazzite-gnome-nvidia" ->
                   Variant("bazzite-deck-nvidia", "bazzite-dx-nvidia-gnome",
                           NoGpuSuffixes)
             [] v = "bazzite-deck" -> Variant(None, None, GpuSuffixes)
             [] v = "bazzite-deck-nvidia" -> Variant(None, None, NoGpuSuffixes)
             [] v = "bazzite-deck-gnome" -> Variant(None, None, GpuSuffixes)
             [] v = "bazzite-asus" -> Variant("bazzite-deck", None, NoGpuSuffixes)
             [] v = "bazzite-dx" -> Variant(None, None, GpuSuffixes)
             [] v = "bazzite-dx-nvidia" -> Variant(None, None, NoGpuSuffixes)
             [] v = "bazzite-dx-gnome" -> Variant(None, None, GpuSuffixes)
             [] v = "bazzite-dx-nvidia-gnome" -> Variant(None, None, NoGpuSuffixes)],
     branches |-> {"stable", "testing"}]

BLUEFIN_CONFIG ==
    [base_url |-> <<"ostree-image-signed:docker://ghcr.io/ublue-os/", "bluefin">>,
     variants |->
        [v \in {"bluefin", "bluefin-dx"} |->
           IF v = "bluefin" THEN Variant(None, "bluefin-dx", GpuSuffixes)
                            ELSE Variant(None, None, GpuSuffixes)],
     branches |-> {"stable", "latest", "gts"}]

AURORA_CONFIG ==
    [base_url |-> <<"ostree-image-signed:docker://ghcr.io/ublue-os/", "aurora">>,
     variants |->
        [v \in {"aurora", "aurora-dx"} |->
           IF v = "aurora" THEN Variant(None, "aurora-dx", GpuSuffixes)
                           ELSE Variant(None, None, GpuSuffixes)],
     branches |-> {"stable", "latest", "gts"}]

SILVERBLUE_CONFIG ==
    [base_url |-> <<"ostree-image-signed:docker://quay.io/fedora/", "fedora-",
                    "silverblue">>,
     variants |-> [v \in {"silverblue"} |-> Variant(None, None, NoGpuVariants)],
     branches |-> {"41", "40", "rawhide"}]

KINOITE_CONFIG ==
    [base_url |-> <<"ostree-image-signed:docker://quay.io/fedora/", "fedora-",
                    "kinoite">>,
     variants |-> [v \in {"kinoite"} |-> Variant(None, None, NoGpuVariants)],
     branches |-> {"41", "40", "rawhide"}]

\* the configurations detect_current_image chooses from
ImageConfig ==
    [BAZZITE |-> BAZZITE_CONFIG, BLUEFIN |-> BLUEFIN_CONFIG,
     AURORA |-> AURORA_CONFIG, SILVERBLUE |-> SILVERBLUE_CONFIG,
     KINOITE |-> KINOITE_CONFIG]

Families == DOMAIN ImageConfig

\* "word" in base_url
InText(word, text) == \E i \in 1..Len(text) : text[i] = word

\* pending_changes.get(key, default), a key being present or absent
GetOr(entry, default) == IF entry = {} THEN default ELSE CHOOSE x \in entry : TRUE

\* pending_changes.get(key) being true
IsSet(entry) == TRUE \in entry

variant_to_suffix ==
    [v \in DOMAIN BAZZITE_CONFIG.variants |->
        CASE v = "bazzite" -> << >>
          [] v = "bazzite-nvidia" -> <<"-nvidia">>
          [] v = "bazzite-gnome" -> <<"-gnome">>
          [] v = "bazzite-gnome-nvidia" -> <<"-gnome", "-nvidia">>
          [] v = "bazzite-deck" -> <<"-deck">>
          [] v = "bazzite-deck-nvidia" -> <<"-deck", "-nvidia">>
          [] v = "bazzite-deck-gnome" -> <<"-deck", "-gnome">>
          [] v = "bazzite-asus" -> <<"-asus">>
          [] v = "bazzite-dx" -> <<"-dx">>
          [] v = "bazzite-dx-nvidia" -> <<"-dx", "-nvidia">>
          [] v = "bazzite-dx-gnome" -> <<"-dx", "-gnome">>
          [] v = "bazzite-dx-nvidia-gnome" -> <<"-dx", "-nvidia", "-gnome">>]

\* suffix.replace("-nvidia", "")
WithoutNvidia(suffix) == SelectSeq(suffix, LAMBDA part : part # "-nvidia")

\* the suffix of a Bazzite variant on the chosen GPU
BazziteSuffix(target_variant, gpu) ==
    LET suffix == variant_to_suffix[target_variant]
    IN  IF gpu = "NVIDIA" /\ ~InText("-nvidia", suffix)
        THEN CASE suffix = <<"-deck", "-gnome">> -> <<"-deck", "-nvidia", "-gnome">>
               [] suffix = <<"-deck">> -> <<"-deck", "-nvidia">>
               [] suffix = <<"-gnome">> -> <<"-gnome", "-nvidia">>
               [] suffix = <<"-dx", "-gnome">> -> <<"-dx", "-nvidia", "-gnome">>
               [] suffix = <<"-dx">> -> <<"-dx", "-nvidia">>
               [] suffix = << >> -> <<"-nvidia">>
               [] OTHER -> suffix
        ELSE IF gpu = "AMD" /\ InText("-nvidia", suffix)
             THEN WithoutNvidia(suffix)
             ELSE suffix

\* the suffix of a Bluefin or Aurora variant on the chosen GPU
DxGpuSuffix(target_variant, dx_name, variant_info, gpu) ==
    (IF target_variant = dx_name THEN <<"-dx">> ELSE << >>)
    \o (IF /\ DOMAIN variant_info.gpu_variants # {}
           /\ gpu \in DOMAIN variant_info.gpu_variants
        THEN variant_info.gpu_variants[gpu]
        ELSE << >>)

\* the variant after the game-mode and DX changes
TargetVariant(config, current_variant, pending) ==
    LET info1 == config.variants[current_variant]
        v1 == IF IsSet(pending.gamemode) /\ info1.gamemode_target # None
              THEN info1.gamemode_target ELSE current_variant
        info2 == config.variants[v1]
    IN  IF IsSet(pending.dx_mode) /\ info2.dx_target # None
        THEN info2.dx_target ELSE v1

\* whether a branch of the function assigns the local variable gpu
BindsGpu(base_url) ==
    InText("bazzite", base_url) \/ InText("bluefin", base_url)
        \/ InText("aurora", base_url)

\* what one generate_rebase_url call answers
UrlAnswer(raised, url) == [raised |-> raised, url |-> url]

\* OSManagerWindow.generate_rebase_url
generate_rebase_url(config, current_variant, current_gpu, current_branch, pending) ==
    LET target_variant == TargetVariant(config, current_variant, pending)
        variant_info == config.variants[target_variant]
        base_url == config.base_url
        gpu == GetOr(pending.gpu, current_gpu)
        suffix ==
            IF InText("bazzite", base_url)
            THEN BazziteSuffix(target_variant, gpu)
            ELSE IF InText("bluefin", base_url)
            THEN DxGpuSuffix(target_variant, "bluefin-dx", variant_info, gpu)
            ELSE IF InText("aurora", base_url)
            THEN DxGpuSuffix(target_variant, "aurora-dx", variant_info, gpu)
            ELSE << >>
        branch == GetOr(pending.branch, current_branch)
    IN  IF BindsGpu(base_url)
        THEN UrlAnswer(None, base_url \o suffix \o <<":", branch>>)
        ELSE UrlAnswer("UnboundLocalError", << >>)

Gpus == {"AMD", "NVIDIA", "Intel"}

\* the pending changes the controls of a configuration can produce
PendingChanges(config) ==
    [gamemode : {{}, {TRUE}, {FALSE}}, dx_mode : {{}, {TRUE}, {FALSE}},
     gpu : {{}} \cup {{g} : g \in Gpus},
     branch : {{}} \cup {{b} : b \in config.branches}]

\* what detect_current_image found, and the changes chosen since
Window(family, variant, gpu, branch, pending) ==
    [family |-> family, variant |-> variant, gpu |-> gpu, branch |-> branch,
     pending |-> pending]

\* the windows of every image family, variant and choice of changes
Windows ==
    UNION {{Window(family, variant, gpu, branch, pending) :
               variant \in DOMAIN ImageConfig[family].variants,
               gpu \in {"AMD", "NVIDIA"},
               branch \in ImageConfig[family].branches,
               pending \in PendingChanges(ImageConfig[family])} :
           family \in Families}

\* a Bazzite window with nothing chosen
PlainWindow ==
    Window("BAZZITE", "bazzite", "AMD", "stable",
           [gamemode |-> {}, dx_mode |-> {}, gpu |-> {}, branch |-> {}])

NoUrlCall == [called |-> FALSE, result |-> UrlAnswer(None, << >>)]

\* one generate_rebase_url call on a window that detected its image
GenerateRebaseUrl ==
    /\ g_last' = [called |-> TRUE,
                  result |-> generate_rebase_url(ImageConfig[g_window.family],
                                                 g_window.variant, g_window.gpu,
                                                 g_window.branch, g_window.pending)]
    /\ UNCHANGED g_window
    /\ UNCHANGED nonUrlVars

\* the window after detect_current_image
InitWindow(window) ==
    /\ g_window = window
    /\ g_last = NoUrlCall

(* -------------------- OS manager: system update ------------------------- *)

\* the update tools in priority order
UPDATE_TOOLS ==
    << [name |-> "uupd",
        command |-> <<"flatpak-spawn", "--host", "pkexec", "uupd", "--json">>,
        check_command |-> "uupd",
        reboot_indicators |-> {"(R)eboot", "(r)eboot", "restart required",
                               "Reboot required", "System restart required"}],
       [name |-> "ujust",
        command |-> <<"flatpak-spawn", "--host", "ujust", "update">>,
        check_command |-> "ujust",
        reboot_indicators |-> {"(R)eboot", "(r)eboot"}],
       [name |-> "bootc",
        command |-> <<"flatpak-spawn", "--host", "pkexec", "bootc", "upgrade">>,
        check_command |-> "bootc",
        reboot_indicators |-> {"(R)eboot", "(r)eboot", "restart required",
                               "Reboot required"}],
       [name |-> "rpm-ostree",
        command |-> <<"flatpak-spawn", "--host", "rpm-ostree", "upgrade">>,
        check_command |-> "rpm-ostree",
        reboot_indicators |-> {"(R)eboot", "(r)eboot"}] >>

\* the commands the host may have installed
HostCommands == {UPDATE_TOOLS[i].check_command : i \in 1..Len(UPDATE_TOOLS)}

\* the threads on_update_clicked starts, in the order of the clicks; a
\* process is known by the thread that started it
UpdateThreads == 1..MaxUpdates

\* update_process = None
NoHandle == 0

\* selected_tool = None
NoTool == 0

\* the lines an update process writes
UpdateLines == {"Updating", "(R)eboot"}

NoUpdateProcess == [state |-> "none", cmd |-> << >>, left |-> 0]

\* the return code of flatpak-spawn --host which <check_command>
which(host, check_command) == IF check_command \in host THEN 0 ELSE 1

\* a loop that takes the tools that are missing
SelectsOnFailure(returncode) == returncode # 0

\* if check_result.returncode == 0: selected_tool = tool; break
Selects(returncode) == returncode = 0

\* the UI thread is in no handler
MainIdle == [pc |-> "idle", then |-> "none"]

\* the rest of on_update_clicked: show the progress page, start the thread
StartUpdate(ui) ==
    /\ u_ui' = [ui EXCEPT !.view = "progress", !.cancel_sensitive = TRUE,
                          !.back = FALSE]
    /\ is_system_update' = TRUE
    /\ u_clicks' = u_clicks + 1
    /\ u_pc' = [u_pc EXCEPT ![u_clicks + 1] = "select"]
    /\ u_main' = MainIdle

\* what a click handler does once cleanup_update_process has returned
AfterCleanup(then) ==
    CASE then = "update" -> StartUpdate(u_ui)
      [] then = "cancel" ->
            /\ u_ui' = [u_ui EXCEPT !.cancel_visible = FALSE, !.back = TRUE]
            /\ u_main' = MainIdle
            /\ UNCHANGED <<is_system_update, u_clicks, u_pc>>
      [] then = "back" ->
            /\ u_ui' = [u_ui EXCEPT !.cancel_visible = TRUE, !.back = FALSE,
                                    !.view = "config"]
            /\ is_system_update' = FALSE
            /\ u_main' = MainIdle
            /\ UNCHANGED <<u_clicks, u_pc>>

\* on_update_clicked: disable the button, clean up a process still referred
\* to, then start a thread on run_system_update
OnUpdateClicked ==
    /\ u_main = MainIdle
    /\ u_ui.view = "config"
    /\ u_ui.update_button
    /\ u_clicks < MaxUpdates
    /\ IF update_process # NoHandle
       THEN /\ u_main' = [pc |-> "cleanup", then |-> "update"]
            /\ u_ui' = [u_ui EXCEPT !.update_button = FALSE]
            /\ UNCHANGED <<is_system_update, u_clicks, u_pc>>
       ELSE StartUpdate([u_ui EXCEPT !.update_button = FALSE])
    /\ UNCHANGED <<update_process, u_posted, u_host, u_checked, u_sel, u_held,
                   u_raised, u_proc>>
    /\ UNCHANGED nonUpdateVars

\* on_cancel_clicked: a system update with a process referred to is cleaned
\* up; otherwise the click goes to the command executor
OnCancelClicked ==
    /\ u_main = MainIdle
    /\ u_ui.view = "progress"
    /\ u_ui.cancel_visible
    /\ u_ui.cancel_sensitive
    /\ IF is_system_update /\ update_process # NoHandle
       THEN /\ u_main' = [pc |-> "cleanup", then |-> "cancel"]
            /\ u_ui' = [u_ui EXCEPT !.cancel_sensitive = FALSE]
       ELSE /\ u_ui' = [u_ui EXCEPT !.cancel_sensitive = FALSE,
                                    !.cancel_visible = FALSE, !.back = TRUE]
            /\ UNCHANGED u_main
    /\ UNCHANGED <<update_process, is_system_update, u_posted, u_host, u_pc,
                   u_checked, u_sel, u_held, u_raised, u_proc, u_clicks>>
    /\ UNCHANGED nonUpdateVars

\* on_back_clicked: clean up a process still referred to, return to the
\* configuration page
OnBackClicked ==
    /\ u_main = MainIdle
    /\ u_ui.view = "progress"
    /\ u_ui.back
    /\ IF update_process # NoHandle
       THEN /\ u_main' = [pc |-> "cleanup", then |-> "back"]
            /\ UNCHANGED <<u_ui, is_system_update, u_clicks, u_pc>>
       ELSE AfterCleanup("back")
    /\ UNCHANGED <<update_process, u_posted, u_host, u_checked, u_sel, u_held,
                   u_raised, u_proc>>
    /\ UNCHANGED nonUpdateVars

\* cleanup_update_process: if self.update_process, kill its process group
CleanupKill ==
    /\ u_main.pc = "cleanup"
    /\ IF update_process # NoHandle
       THEN /\ u_proc' = [u_proc EXCEPT ![update_process].state = "dead"]
            /\ u_main' = [u_main EXCEPT !.pc = "clear"]
            /\ UNCHANGED <<u_ui, is_system_update, u_clicks, u_pc>>
       ELSE /\ AfterCleanup(u_main.then)
            /\ UNCHANGED u_proc
    /\ UNCHANGED <<update_process, u_posted, u_host, u_checked, u_sel, u_held,
                   u_raised>>
    /\ UNCHANGED nonUpdateVars

\* cleanup_update_process: finally self.update_process = None
CleanupClear ==
    /\ u_main.pc = "clear"
    /\ update_process' = NoHandle
    /\ AfterCleanup(u_main.then)
    /\ UNCHANGED <<u_posted, u_host, u_checked, u_sel, u_held, u_raised, u_proc>>
    /\ UNCHANGED nonUpdateVars

\* ui_update with finished=True, run from the idle queue on the UI thread
UiUpdateFinished ==
    /\ u_main = MainIdle
    /\ u_posted
    /\ u_posted' = FALSE
    /\ u_ui' = [u_ui EXCEPT !.cancel_visible = FALSE, !.back = TRUE,
                            !.update_button = TRUE]
    /\ UNCHANGED <<update_process, is_system_update, u_main, u_host, u_pc,
                   u_checked, u_sel, u_held, u_raised, u_proc, u_clicks>>
    /\ UNCHANGED nonUpdateVars

\* what a step of a worker thread leaves alone besides what it names
WorkerKeeps == <<is_system_update, u_ui, u_main, u_host, u_clicks>>

\* run_system_update: look for the next tool of UPDATE_TOOLS
CheckTool(w) ==
    /\ u_pc[w] = "select"
    /\ Len(u_checked[w]) < Len(UPDATE_TOOLS)
    /\ LET i == Len(u_checked[w]) + 1
           tool == UPDATE_TOOLS[i]
       IN  /\ u_checked' = [u_checked EXCEPT ![w] = Append(@, tool.name)]
           /\ IF Selects(which(u_host, tool.check_command))
              THEN /\ u_sel' = [u_sel EXCEPT ![w] = i]
                   /\ u_pc' = [u_pc EXCEPT ![w] = "popen"]
              ELSE UNCHANGED <<u_sel, u_pc>>
    /\ UNCHANGED <<update_process, u_posted, u_held, u_raised, u_proc>>
    /\ UNCHANGED WorkerKeeps
    /\ UNCHANGED nonUpdateVars

\* run_system_update: if not selected_tool, report and return
NoToolFound(w) ==
    /\ u_pc[w] = "select"
    /\ Len(u_checked[w]) = Len(UPDATE_TOOLS)
    /\ u_posted' = TRUE
    /\ u_pc' = [u_pc EXCEPT ![w] = "done"]
    /\ UNCHANGED <<update_process, u_checked, u_sel, u_held, u_raised, u_proc>>
    /\ UNCHANGED WorkerKeeps
    /\ UNCHANGED nonUpdateVars

\* self.update_process = subprocess.Popen(update_cmd, ...)
UpdatePopen(w) ==
    /\ u_pc[w] = "popen"
    /\ u_proc' = [u_proc EXCEPT ![w] = [state |-> "alive",
                                        cmd |-> UPDATE_TOOLS[u_sel[w]].command,
                                        left |-> MaxUpdateLines]]
    /\ update_process' = w
    /\ u_pc' = [u_pc EXCEPT ![w] = "test"]
    /\ UNCHANGED <<u_posted, u_checked, u_sel, u_held, u_raised>>
    /\ UNCHANGED WorkerKeeps
    /\ UNCHANGED nonUpdateVars

\* an attribute of self.update_process is read while it is None: the
\* AttributeError lands in except Exception, which reports, then finally
RaisesAttributeError(w) ==
    /\ u_raised' = [u_raised EXCEPT ![w] = "AttributeError"]
    /\ u_posted' = TRUE
    /\ u_pc' = [u_pc EXCEPT ![w] = "finally"]

\* while True: if self.update_process is None: report the cancel, return
UpdateLoopTest(w) ==
    /\ u_pc[w] = "test"
    /\ IF update_process = NoHandle
       THEN /\ u_posted' = TRUE
            /\ u_pc' = [u_pc EXCEPT ![w] = "finally"]
       ELSE /\ u_pc' = [u_pc EXCEPT ![w] = "deref"]
            /\ UNCHANGED u_posted
    /\ UNCHANGED <<update_process, u_checked, u_sel, u_held, u_raised, u_proc>>
    /\ UNCHANGED WorkerKeeps
    /\ UNCHANGED nonUpdateVars

\* self.update_process.stdout: the attribute is read again
UpdateDeref(w) ==
    /\ u_pc[w] = "deref"
    /\ IF update_process = NoHandle
       THEN /\ RaisesAttributeError(w)
            /\ UNCHANGED u_held
       ELSE /\ u_held' = [u_held EXCEPT ![w] = update_process]
            /\ u_pc' = [u_pc EXCEPT ![w] = "readline"]
            /\ UNCHANGED <<u_raised, u_posted>>
    /\ UNCHANGED <<update_process, u_checked, u_sel, u_proc>>
    /\ UNCHANGED WorkerKeeps
    /\ UNCHANGED nonUpdateVars

\* stdout.readline(): a line of the process, or the end of its output;
\* a line with a reboot indicator of the selected tool shows the buttons
UpdateReadline(w) ==
    /\ u_pc[w] = "readline"
    /\ LET h == u_held[w]
       IN  \/ /\ u_proc[h].state = "alive"
              /\ u_proc[h].left > 0
              /\ \E line \in UpdateLines :
                    u_posted' = (u_posted \/
                        line \in UPDATE_TOOLS[u_sel[w]].reboot_indicators)
              /\ u_proc' = [u_proc EXCEPT ![h].left = @ - 1]
              /\ u_pc' = [u_pc EXCEPT ![w] = "test"]
           \/ /\ u_proc[h].state = "dead"
              /\ u_pc' = [u_pc EXCEPT ![w] = "poll"]
              /\ UNCHANGED <<u_posted, u_proc>>
    /\ UNCHANGED <<update_process, u_checked, u_sel, u_held, u_raised>>
    /\ UNCHANGED WorkerKeeps
    /\ UNCHANGED nonUpdateVars

\* if not line: if self.update_process.poll() is not None: break;
\* otherwise sleep and read on
UpdatePoll(w) ==
    /\ u_pc[w] = "poll"
    /\ IF update_process = NoHandle
       THEN RaisesAttributeError(w)
       ELSE /\ u_pc' = [u_pc EXCEPT ![w] =
                           IF u_proc[update_process].state = "dead"
                           THEN "after" ELSE "test"]
            /\ UNCHANGED <<u_raised, u_posted>>
    /\ UNCHANGED <<update_process, u_checked, u_sel, u_held, u_proc>>
    /\ UNCHANGED WorkerKeeps
    /\ UNCHANGED nonUpdateVars

\* after the loop: if self.update_process: wait; else returncode = -1
UpdateAfterLoop(w) ==
    /\ u_pc[w] = "after"
    /\ IF update_process # NoHandle
       THEN /\ u_pc' = [u_pc EXCEPT ![w] = "wait"]
            /\ UNCHANGED u_posted
       ELSE /\ u_posted' = TRUE
            /\ u_pc' = [u_pc EXCEPT ![w] = "finally"]
    /\ UNCHANGED <<update_process, u_checked, u_sel, u_held, u_raised, u_proc>>
    /\ UNCHANGED WorkerKeeps
    /\ UNCHANGED nonUpdateVars

\* self.update_process.wait(), self.update_process.returncode, the report
UpdateWait(w) ==
    /\ u_pc[w] = "wait"
    /\ IF update_process = NoHandle
       THEN RaisesAttributeError(w)
       ELSE /\ u_proc[update_process].state = "dead"
            /\ u_posted' = TRUE
            /\ u_pc' = [u_pc EXCEPT ![w] = "finally"]
            /\ UNCHANGED u_raised
    /\ UNCHANGED <<update_process, u_checked, u_sel, u_held, u_proc>>
    /\ UNCHANGED WorkerKeeps
    /\ UNCHANGED nonUpdateVars

\* finally: self.update_process = None
UpdateFinally(w) ==
    /\ u_pc[w] = "finally"
    /\ update_process' = NoHandle
    /\ u_pc' = [u_pc EXCEPT ![w] = "done"]
    /\ UNCHANGED <<u_posted, u_checked, u_sel, u_held, u_raised, u_proc>>
    /\ UNCHANGED WorkerKeeps
    /\ UNCHANGED nonUpdateVars

\* an update process ends by itself
UpdateProcessExits(p) ==
    /\ u_proc[p].state = "alive"
    /\ u_proc' = [u_proc EXCEPT ![p].state = "dead"]
    /\ UNCHANGED <<update_process, u_posted, u_pc, u_checked, u_sel, u_held,
                   u_raised>>
    /\ UNCHANGED WorkerKeeps
    /\ UNCHANGED nonUpdateVars

\* OSManagerWindow.__init__ on a host with the given tools
InitOSManager(host) ==
    /\ update_process = NoHandle
    /\ is_system_update = FALSE
    /\ u_ui = [view |-> "config", update_button |-> TRUE, cancel_visible |-> TRUE,
               cancel_sensitive |-> TRUE, back |-> FALSE]
    /\ u_posted = FALSE
    /\ u_main = MainIdle
    /\ u_host = host
    /\ u_pc = [w \in UpdateThreads |-> "idle"]
    /\ u_checked = [w \in UpdateThreads |-> << >>]
    /\ u_sel = [w \in UpdateThreads |-> NoTool]
    /\ u_held = [w \in UpdateThreads |-> NoHandle]
    /\ u_raised = [w \in UpdateThreads |-> None]
    /\ u_proc = [w \in UpdateThreads |-> NoUpdateProcess]
    /\ u_clicks = 0

(* --------------------------- specification ------------------------------ *)

\* the state after construction, the history file being f
InitComponents(f) ==
    /\ is_executing = FALSE
    /\ current_process = None
    /\ cancel_requested = FALSE
    /\ pc = [t \in Workers |-> "idle"]
    /\ argv = [t \in Workers |-> << >>]
    /\ via = [t \in Workers |-> "direct"]
    /\ calls = 0
    /\ proc = [t \in Workers |-> NoProc]
    /\ nread = [t \in Workers |-> 0]
    /\ output_lines = [t \in Workers |-> << >>]
    /\ sink = [t \in Workers |-> << >>]
    /\ exc = [t \in Workers |-> None]
    /\ result = [t \in Workers |-> NoResult]
    /\ ui_pc = "idle"
    /\ ui_target = NoTarget
    /\ cancels = 0
    /\ cancel_result = FALSE
    /\ auth_pc = "idle"
    /\ auth_n = 0
    /\ auth_log = << >>
    /\ auth_result = NoAuthResult
    /\ auth_requests = 0
    /\ auth_grants = 0
    /\ auth_runs = 0
    /\ v_argv = << >>
    /\ v_result = NoValidation
    /\ u_url = << >>
    /\ u_result = NoValidation
    /\ u_cmd_result = NoValidation
    /\ fs = [p \in Paths |-> IF p = history_file THEN f ELSE NoFile]
    /\ h_init = f
    /\ h_pc = "idle"
    /\ h_op = "none"
    /\ h_log = NoLog
    /\ h_entry = << >>
    /\ h_loaded = << >>
    /\ h_entries = << >>
    /\ h_value = 0
    /\ h_ret = NoRet
    /\ h_clock = MAX_ENTRIES + 2
    /\ h_adds = 0
    /\ h_clears = 0
    /\ h_faults = 0
    /\ e_entry = << >>
    /\ e_dict = << >>
    /\ e_back = << >>
    /\ operation_name = None
    /\ start_time = {}
    /\ output_buffer = << >>
    /\ is_tracking = FALSE
    /\ line_buffer = << >>
    /\ js_queue = << >>
    /\ t_clock = 0
    /\ t_text = << >>
    /\ t_lines = << >>
    /\ t_last = NoTrackerCall
    /\ t_calls = 0
    /\ t_bulks = 0
    /\ cache = [k \in CacheKeys |-> NoCacheEntry]
    /\ r_clock = 0
    /\ r_fetched = [t \in Triples |-> NoCacheEntry]
    /\ r_last = NoQuery
    /\ r_queries = 0
    /\ r_days = 0
    /\ d_last = NoDeploymentCall
    /\ d_calls = 0
    /\ rep_last = NoReport
    /\ rep_calls = 0
    /\ a_pc = [t \in Threads |-> "idle"]
    /\ a_new = [t \in Threads |-> << >>]
    /\ a_list = [t \in Threads |-> << >>]
    /\ a_fd = [t \in Threads |-> 0]
    /\ a_dir = [p \in Paths |-> IF p = history_file /\ f.exists THEN 1 ELSE 0]
    /\ a_ino = [i \in Inodes |-> IF i = 1 /\ f.exists THEN f.text ELSE EmptyText]
    /\ a_next = IF f.exists THEN 2 ELSE 1
    /\ a_clock = 100
    /\ a_done = {}
    /\ a_adds = 0
    /\ an_last = NoAnalysis

\* every component freshly constructed, on a host with every update tool
InitFrom(f) ==
    InitComponents(f) /\ InitOSManager(HostCommands) /\ InitWindow(PlainWindow)

Init == InitFrom(NoFile)

\* the OS manager starts on a host with any set of update tools
InitUpdate ==
    \E host \in SUBSET HostCommands :
        InitComponents(NoFile) /\ InitOSManager(host) /\ InitWindow(PlainWindow)

\* the window starts on any image family, variant and choice of changes
InitRebaseUrl ==
    \E window \in Windows :
        InitComponents(NoFile) /\ InitOSManager(HostCommands) /\ InitWindow(window)

\* the history manager starts on whatever file it finds
InitHistory == \E f \in InitialFiles : InitFrom(f)

Next ==
    \/ \E t \in Workers : DirectCall(t)
    \/ \E t \in Workers : ApiExecuteRebase(t)
    \/ \E t \in Workers : Guard(t)
    \/ \E t \in Workers : Spawn(t)
    \/ \E t \in Workers : Poll(t)
    \/ \E t \in Workers : ReadLine(t)
    \/ \E t \in Workers : SinkLine(t)
    \/ \E t \in Workers : Drain(t)
    \/ \E t \in Workers : Finish(t)
    \/ \E t \in Workers : Except(t)
    \/ \E t \in Workers : Finally(t)
    \/ \E t \in Workers : Return(t)
    \/ \E t \in Workers : Produce(t)
    \/ \E t \in Workers : Exit(t)
    \/ \E t \in Workers : TermDeath(t)
    \/ Cancel
    \/ CancelJoin
    \/ CancelKill

Spec == Init /\ [][Next]_vars

NextAuth ==
    \/ RequestPrivileges
    \/ CheckAuthorization
    \/ AuthorizationDenied
    \/ RunElevated
    \/ ReportDenial

SpecAuth == Init /\ [][NextAuth]_vars

NextValidate == ValidateCall

SpecValidate == Init /\ [][NextValidate]_vars

NextHistory ==
    \/ AddEntry
    \/ PruneOldEntries
    \/ ClearHistory
    \/ LoadHistory
    \/ SaveOpen
    \/ SaveDump
    \/ SaveClose
    \/ SaveReplace
    \/ SaveChmod
    \/ SaveFails
    \/ Crash

SpecHistory == InitHistory /\ [][NextHistory]_vars

NextUrl == ValidateUrlCall

SpecUrl == Init /\ [][NextUrl]_vars

NextEntry == EntryRoundTrip

SpecEntry == Init /\ [][NextEntry]_vars

NextTracker ==
    \/ StartTracking
    \/ UpdateOutput
    \/ Complete
    \/ ClearTracker

SpecTracker == Init /\ [][NextTracker]_vars

NextTrackerRing ==
    \/ StartTracking
    \/ UpdateOutputBulk
    \/ UpdateOutputLines
    \/ Complete
    \/ ClearTracker

SpecTrackerRing == Init /\ [][NextTrackerRing]_vars

NextRegistry ==
    \/ ListImageTags
    \/ GetRecentImages
    \/ RegistryTick

SpecRegistry == Init /\ [][NextRegistry]_vars

NextAnalyze == AnalyzeErrorType

SpecAnalyze == Init /\ [][NextAnalyze]_vars

InitThreads == \E f \in ThreadFiles : InitFrom(f)

NextThreads ==
    \E t \in Threads :
       \/ ThreadAdd(t)
       \/ ThreadLoad(t)
       \/ ThreadOpen(t)
       \/ ThreadDump(t)
       \/ ThreadReplace(t)
       \/ ThreadChmod(t)

SpecThreads == InitThreads /\ [][NextThreads]_vars

InitReport == \E f \in ReportFiles : InitFrom(f)

NextReport == GenerateSecurityReport

SpecReport == InitReport /\ [][NextReport]_vars

NextUpdate ==
    \/ OnUpdateClicked
    \/ OnCancelClicked
    \/ OnBackClicked
    \/ CleanupKill
    \/ CleanupClear
    \/ UiUpdateFinished
    \/ \E w \in UpdateThreads : CheckTool(w)
    \/ \E w \in UpdateThreads : NoToolFound(w)
    \/ \E w \in UpdateThreads : UpdatePopen(w)
    \/ \E w \in UpdateThreads : UpdateLoopTest(w)
    \/ \E w \in UpdateThreads : UpdateDeref(w)
    \/ \E w \in UpdateThreads : UpdateReadline(w)
    \/ \E w \in UpdateThreads : UpdatePoll(w)
    \/ \E w \in UpdateThreads : UpdateAfterLoop(w)
    \/ \E w \in UpdateThreads : UpdateWait(w)
    \/ \E w \in UpdateThreads : UpdateFinally(w)
    \/ \E p \in UpdateThreads : UpdateProcessExits(p)

SpecUpdate == InitUpdate /\ [][NextUpdate]_vars

NextRebaseUrl == GenerateRebaseUrl

SpecRebaseUrl == InitRebaseUrl /\ [][NextRebaseUrl]_vars

NextRecent ==
    \/ GetRecentImagesLong
    \/ RegistryTick

SpecRecent == Init /\ [][NextRecent]_vars

NextDeployment ==
    \/ GetAllDeployments
    \/ GenerateRollbackCommand

SpecDeployment == Init /\ [][NextDeployment]_vars

\* every step of a worker thread's call
WorkerStep(t) ==
    \/ Guard(t) \/ Spawn(t) \/ Poll(t) \/ ReadLine(t) \/ SinkLine(t) \/ Drain(t)
    \/ Finish(t) \/ Except(t) \/ Finally(t) \/ Return(t)

\* a started thread runs on: the scheduler does not starve it
FairSpec == Spec /\ \A t \in Workers : WF_vars(WorkerStep(t))

(* ============================== claims ================================== *)

Outcomes == {"Succeeded", "Failed", "Cancelled", "TimedOut"}

\* the lines of a sequence that are not blank, each without its trailing
\* whitespace, in their order
NonBlankStripped(lines) ==
    LET stripped == [i \in 1..Len(lines) |-> rstrip(lines[i])]
    IN  SelectSeq(stripped, LAMBDA l : l # << >>)

\* the number of lines worker t has read and finished handling
Handled(t) == IF pc[t] = "sink" THEN nread[t] - 1 ELSE nread[t]

C4_EndsIdle ==
    /\ [][\A t \in Workers :
             (pc[t] = "finally" /\ pc'[t] = "idle") =>
                 /\ result[t].outcome \in Outcomes
                 /\ result[t].success <=> (result[t].outcome = "Succeeded")
                 /\ is_executing' = FALSE
                 /\ current_process' = None]_vars
    /\ [](is_executing => \E t \in Workers : pc[t] \in ActivePcs)
    /\ [](current_process # None => pc[current_process] \in ActivePcs)
    /\ \A t \in Workers : (pc[t] \in ActivePcs) ~> (pc[t] = "idle")

C4_Witness ==
    \E t \in Workers :
        /\ pc[t] = "spawn"
        /\ calls = MaxCalls
        /\ \A u \in Workers \ {t} : pc[u] = "idle"

C6_Timeout ==
    \A t \in Workers :
        /\ (pc[t] = "finally" /\ exc[t] = "TimeoutExpired") =>
              /\ proc[t].wkills = 1
              /\ proc[t].state = "exited"
              /\ proc[t].terms = 0 => proc[t].ckills = 0
              /\ result[t].success = FALSE
              /\ result[t].error_kind = "timeout"
              /\ "timed out" \in result[t].markers
        /\ result[t].error_kind = "timeout" => exc[t] = "TimeoutExpired"

C6_Witness ==
    \E t \in Workers :
        /\ pc[t] = "finally"
        /\ exc[t] = "TimeoutExpired"
        /\ result[t].outcome = "TimedOut"
        /\ proc[t].terms = 0

C8_NeverRaises ==
    \A t \in Workers :
        /\ pc[t] # "raised"
        /\ pc[t] \in {"finally", "done"} =>
              /\ result[t].success \in BOOLEAN
              /\ result[t].error_kind \in
                    {"", "general", "timeout", "cancelled", "validation_error"}
        /\ (pc[t] = "finally" /\ exc[t] = "Exception") =>
              /\ result[t].success = FALSE
              /\ result[t].error_kind = "general"
              /\ "exception text" \in result[t].markers

C8_Witness ==
    \E t \in Workers :
        /\ pc[t] = "finally"
        /\ exc[t] = "Exception"
        /\ proc[t].state = "exited"
        /\ proc[t].wkills = 1

\* C9: request_elevated_privileges(max_retries = n) makes one authorization
\* check per attempt, stops at the first approval and then returns
\* authorized with an empty error, never makes more than n checks, and after
\* n denied checks returns not authorized, a denial after which the caller
\* executes no command.
C9_AuthorizationRetry ==
    /\ Len(auth_log) <= auth_n
    /\ \A i \in 1..(Len(auth_log) - 1) : auth_log[i] # "approved"
    /\ auth_pc = "loop" => \A i \in 1..Len(auth_log) : auth_log[i] # "approved"
    /\ auth_pc = "returned" =>
          IF auth_result.authorized
          THEN /\ auth_log # << >>
               /\ auth_log[Len(auth_log)] = "approved"
               /\ auth_result.error = ""
          ELSE /\ Len(auth_log) = auth_n
               /\ \A i \in 1..Len(auth_log) : auth_log[i] # "approved"
               /\ auth_result.error = "Authorization denied"
    /\ auth_runs <= auth_grants

C9_Witness ==
    /\ auth_pc = "returned"
    /\ auth_n = MaxRetries
    /\ Len(auth_log) = MaxRetries
    /\ ~auth_result.authorized
    /\ auth_grants = 1
    /\ auth_runs = 1

\* C10: validate_command rejects the empty argv with the error "Empty
\* command", and rejects every argv whose first element is not a trusted
\* tool, whatever the other arguments are.
C10_RejectsEmptyAndUntrusted ==
    v_result # NoValidation =>
        IF v_argv = << >>
        THEN v_result = [ok |-> FALSE, error |-> "Empty command"]
        ELSE v_argv[1] \notin {<<"rpm-ostree">>, <<"bootc">>} => ~v_result.ok

C10_Witness ==
    /\ v_argv = <<Str("rm"), Str("rebase"), GoodUrl>>
    /\ v_result # NoValidation
    /\ ~v_result.ok

\* C11: validate_command rejects every argv in which some argument, at any
\* position, holds a character of the deny-set, also when the tool and the
\* subcommand are on the whitelists; for a subcommand that takes no image
\* reference the error is "dangerous character".
C11_RejectsMetacharacters ==
    (v_result # NoValidation
       /\ \E i \in 1..Len(v_argv) :
             \E c \in {";", "|", "&", "backtick", "$", "$(", "<", ">"} :
                \E j \in 1..Len(v_argv[i]) : v_argv[i][j] = c)
    => /\ ~v_result.ok
       /\ (v_argv[1] = <<"rpm-ostree">> /\ Len(v_argv) >= 2 /\ v_argv[2] = <<"status">>)
             => v_result.error = "dangerous character"

C11_Witness ==
    /\ v_argv = <<Str("rpm-ostree"), Str("rebase"), GoodUrl, <<"image", "|", "x">>>>
    /\ v_result # NoValidation
    /\ ~v_result.ok

\* an image reference of the form registry/org/image:tag made of plain words
WellFormedUrl(url) ==
    /\ Len(url) = 7
    /\ url[2] = "/" /\ url[4] = "/" /\ url[6] = ":"
    /\ \A k \in {1, 3, 5, 7} : url[k] \notin SPECIAL_TOKENS

StoreOf(file) ==
    IF /\ file.exists
       /\ "ur" \in file.mode
       /\ file.text.kind = "json"
       /\ file.text.written = "all"
       /\ file.text.doc.type = "list"
    THEN SelectSeq(file.text.doc.items,
                   LAMBDA d : /\ "scalar" \notin DOMAIN d
                              /\ {"command", "timestamp", "success", "image_name",
                                  "operation_type"} \subseteq DOMAIN d
                              /\ DOMAIN d \subseteq
                                    {"command", "timestamp", "success", "image_name",
                                     "operation_type", "user_id", "session_id",
                                     "error_message"})
    ELSE << >>

FirstN(seq, n) == IF Len(seq) > n THEN SubSeq(seq, 1, n) ELSE seq

\* C14: starting from a history store of at most MAX_ENTRIES (50) entries,
\* after any sequence of add_entry, prune_old_entries and clear_history
\* calls the store holds at most 50 entries.
C14_StoreAtMostMax ==
    Len(StoreOf(h_init)) <= 50 => Len(StoreOf(fs[history_file])) <= 50

C14_Witness ==
    /\ h_pc = "idle"
    /\ Len(StoreOf(h_init)) = MAX_ENTRIES
    /\ h_adds = MaxAdds
    /\ h_clears = 0
    /\ Len(StoreOf(fs[history_file])) = MAX_ENTRIES
    /\ StoreOf(fs[history_file])[1].timestamp = h_clock

\* C15: add_entry on a store holding the well-formed entries S (newest
\* first) leaves the store equal to the new entry followed by S, cut to the
\* first 50: the entries of S keep their values and their order, and over
\* the cap it is the oldest that goes.
C15_AddPrependsAndTruncates ==
    [][(h_op = "add" /\ h_pc = "replace" /\ h_pc' = "chmod") =>
          /\ StoreOf(fs'[history_file]) =
                FirstN(<<h_entry[1]>> \o StoreOf(fs[history_file]), 50)
          /\ h_entry[1].timestamp = h_clock
          /\ \A i \in 1..Len(StoreOf(fs[history_file])) :
                StoreOf(fs[history_file])[i].timestamp < h_clock]_vars

C15_Witness ==
    /\ h_op = "add"
    /\ h_pc = "chmod"
    /\ Len(h_loaded) = MAX_ENTRIES
    /\ h_adds >= 2
    /\ StoreOf(fs[history_file])[1].timestamp = h_clock
    /\ StoreOf(fs[history_file])[MAX_ENTRIES].timestamp = h_adds + 1

\* C16: at every step of a history write, and after a crash at any point of
\* it, the history file holds either the complete text it held before or the
\* complete text of the new entry list, never a part of one.
C16_AtomicReplace ==
    [][\/ fs'[history_file].text = fs[history_file].text
       \/ /\ h_pc = "replace"
          /\ fs'[history_file].text =
                [kind |-> "json",
                 doc |-> [type |-> "list",
                          items |-> [i \in 1..Len(h_entries) |-> h_entries[i]]],
                 written |-> "all"]]_vars

C16_Witness ==
    /\ h_ret.raised = "crash"
    /\ h_ret.op = "add"
    /\ h_pc = "idle"
    /\ fs[temp_file(history_file)].exists
    /\ fs[temp_file(history_file)].text.written = "part"
    /\ fs[history_file] = h_init
    /\ Len(StoreOf(h_init)) = 2

\* C17 as stated: a history file that is missing, unreadable, not valid
\* JSON, or valid JSON that is no list of entry objects is loaded as the
\* empty list without raising, and a following add_entry stores exactly the
\* new entry; malformed entries are skipped and the well-formed ones of the
\* same file are loaded in order.
C17_CorruptHistoryHarmless ==
    /\ h_ret.raised \notin {"TypeError", "UnicodeDecodeError"}
    /\ (h_op = "add" /\ h_pc = "open") =>
          /\ Len(h_loaded) = Len(StoreOf(fs[history_file]))
          /\ \A i \in 1..Len(h_loaded) :
                h_loaded[i].timestamp = StoreOf(fs[history_file])[i].timestamp
          /\ StoreOf(fs[history_file]) = << >> => h_entries = h_entry

C17_Witness ==
    /\ h_ret.op = "add"
    /\ h_ret.raised = "TypeError"
    /\ h_pc = "idle"
    /\ h_init.text.doc.type = "null"
    /\ fs[history_file] = h_init

\* C18 as stated: if writing to the system log fails in any way (journal
\* module missing, syslog module missing, the journal or syslog call
\* raising), add_entry still completes without raising and goes on to write
\* the new entry.
C18_LogFailureHarmless ==
    /\ (h_ret.op = "add" /\ h_ret.log[1] # "ok") => h_ret.raised # "Exception"
    /\ (h_op = "add" /\ h_pc = "load") => h_entry # << >>

C18_Witness ==
    /\ h_ret.op = "add"
    /\ h_ret.log = <<"raises", "ok">>
    /\ h_ret.raised = "Exception"
    /\ h_pc = "idle"
    /\ fs[history_file] = h_init

\* C19: after every completed history write (add_entry, a
\* prune_old_entries that removes entries, clear_history) the history file
\* exists with owner read and write permission only.
C19_OwnerOnlyAfterWrite ==
    (/\ h_pc = "idle"
     /\ h_ret.op \in {"add", "prune", "clear"}
     /\ h_ret.raised = None
     /\ ~h_ret.save_error
     /\ h_ret.op = "prune" => h_ret.value > 0)
    => /\ fs[history_file].exists
       /\ fs[history_file].mode = {"ur", "uw"}

C19_Witness ==
    /\ h_pc = "idle"
    /\ h_ret.op = "add"
    /\ h_ret.raised = None
    /\ ~h_ret.save_error
    /\ "or" \in h_init.mode
    /\ fs[history_file].mode = {"ur", "uw"}

C21_PruneReturnsRemoved ==
    [][h_op = "prune" =>
          LET S == StoreOf(fs[history_file])
          IN  /\ (h_pc = "load" /\ h_pc' = "idle" /\ h_ret'.raised = None) =>
                    /\ Len(S) <= 50
                    /\ h_ret'.value = 0
                    /\ fs' = fs
              /\ (h_pc = "load" /\ h_pc' = "open") =>
                    /\ Len(S) > 50
                    /\ Len(h_loaded') = Len(S)
                    /\ \A i \in 1..Len(S) : h_loaded'[i].timestamp = S[i].timestamp
              /\ (/\ h_pc = "chmod" /\ h_pc' = "idle"
                  /\ h_ret'.raised = None /\ ~h_ret'.save_error) =>
                    /\ h_ret'.value = Len(h_loaded) - 50
                    /\ h_ret'.value > 0
                    /\ StoreOf(fs'[history_file]) = SubSeq(h_loaded, 1, 50)
                    /\ \A i \in 1..49 :
                          StoreOf(fs'[history_file])[i].timestamp >
                             StoreOf(fs'[history_file])[i + 1].timestamp
                    /\ \A i \in 51..Len(h_loaded) :
                          h_loaded[i].timestamp <
                             StoreOf(fs'[history_file])[50].timestamp]_vars

C21_Witness ==
    /\ h_pc = "idle"
    /\ h_ret.op = "prune"
    /\ h_ret.raised = None
    /\ ~h_ret.save_error
    /\ h_ret.value = 2
    /\ Len(StoreOf(h_init)) = 52
    /\ Len(StoreOf(fs[history_file])) = 50
    /\ StoreOf(fs[history_file])[1].timestamp = 52
    /\ StoreOf(fs[history_file])[50].timestamp = 3

\* C22: for every HistoryEntry, also one whose optional fields (user_id,
\* session_id, error_message) are None, HistoryEntry.from_dict(entry.to_dict())
\* equals the entry.
C22_DictRoundTrip ==
    e_entry # << >> =>
       /\ DOMAIN e_dict[1] = {"command", "timestamp", "success", "image_name",
                              "operation_type", "user_id", "session_id",
                              "error_message"}
       /\ e_back = e_entry

C22_Witness ==
    /\ e_entry # << >>
    /\ e_entry[1].user_id = {}
    /\ e_entry[1].session_id = {}
    /\ e_entry[1].error_message = {"failed"}
    /\ ~e_entry[1].success
    /\ e_dict[1].session_id = {}
    /\ e_back = e_entry

\* the tracker's call that a step makes, if it makes one
TrackerCallMade(ops) == t_calls' # t_calls /\ t_last'.op \in ops

\* C23: update_output and complete are no-ops whenever tracking is not
\* active (never started, already completed, or cleared): they emit no
\* event and leave the output buffer, the pending line buffer and the
\* tracking flag unchanged; a second complete() emits no second completion
\* event.
C23_InactiveCallsAreNoOps ==
    [][(TrackerCallMade({"update_output", "complete"}) /\ ~is_tracking) =>
          /\ js_queue' = js_queue
          /\ output_buffer' = output_buffer
          /\ line_buffer' = line_buffer
          /\ is_tracking' = is_tracking]_vars

C23_Witness ==
    /\ t_last = [op |-> "complete", tracking |-> FALSE]
    /\ Len(js_queue) = 3
    /\ js_queue[1].kind = "initializeProgress"
    /\ js_queue[2].kind = "updateProgress"
    /\ js_queue[3].kind = "completeProgress"
    /\ t_calls = 4
    /\ Len(output_buffer) = 1
    /\ ~is_tracking

\* C24: the lines emitted for a text delivered to update_output while
\* tracking is active do not depend on how the text is cut into chunks: the
\* lines emitted and the fragment held back are those of the delivery of the
\* whole text in one chunk.
C24_ChunkingIrrelevant ==
    (is_tracking /\ t_last.op = "update_output") =>
       LET whole == SplitLines(<< >>, t_text)
           emitted == SelectSeq(whole.lines,
                                LAMBDA l : \E i \in 1..Len(l) : l[i] # " ")
       IN  /\ line_buffer = whole.line_buffer
           /\ Len(t_lines) = Len(emitted)
           /\ \A i \in 1..Len(emitted) :
                 t_lines[i].text = _clean_ansi_codes(emitted[i])
           /\ \A i \in 1..Len(t_lines) :
                 \A j \in 1..Len(t_lines[i].text) : t_lines[i].text[j] # "NL"

C24_Witness ==
    /\ is_tracking
    /\ t_calls = 4
    /\ t_last = [op |-> "update_output", tracking |-> TRUE]
    /\ t_text = <<"a", " ", "a", "NL", "a">>
    /\ Len(t_lines) = 1
    /\ t_lines[1].text = <<"a", " ", "a">>
    /\ line_buffer = <<"a">>

\* C25: complete(success) called while tracking is active first emits the
\* pending partial line, if there is one, as a final line event, then marks
\* tracking inactive and emits exactly one completion event; the completion
\* event is the last event of the operation: no line event follows it.
C25_CompleteFlushesThenCompletes ==
    [][/\ (TrackerCallMade({"complete"}) /\ is_tracking) =>
          /\ ~is_tracking'
          /\ line_buffer' = << >>
          /\ Len(js_queue') = Len(js_queue) + (IF line_buffer = << >> THEN 1 ELSE 2)
          /\ SubSeq(js_queue', 1, Len(js_queue)) = js_queue
          /\ js_queue'[Len(js_queue')].kind = "completeProgress"
          /\ line_buffer # << >> =>
                /\ js_queue'[Len(js_queue') - 1].kind = "updateProgress"
                /\ js_queue'[Len(js_queue') - 1].text = _clean_ansi_codes(line_buffer)
       /\ \A i \in 1..(Len(js_queue') - 1) :
             js_queue'[i].kind = "completeProgress" =>
                js_queue'[i + 1].kind = "initializeProgress"]_vars

C25_Witness ==
    /\ t_last = [op |-> "complete", tracking |-> TRUE]
    /\ ~is_tracking
    /\ Len(js_queue) = 4
    /\ js_queue[2].kind = "updateProgress"
    /\ js_queue[3].kind = "updateProgress"
    /\ js_queue[3].text = <<"a">>
    /\ js_queue[4].kind = "completeProgress"
    /\ js_queue[4].success
    /\ t_text = <<"a", "NL", "a">>

\* C26: the output buffer never holds more than 1000 lines; once more than
\* 1000 lines have been emitted it holds exactly the most recent 1000 in
\* emission order; start_tracking empties it and discards the pending
\* partial line.
C26_BufferBounded ==
    [][/\ Len(output_buffer') <= 1000
       /\ Len(t_lines') > 1000 =>
             output_buffer' = SubSeq(t_lines', Len(t_lines') - 999, Len(t_lines'))
       /\ TrackerCallMade({"start_tracking"}) =>
             /\ output_buffer' = << >>
             /\ line_buffer' = << >>]_vars

C26_Witness ==
    /\ Len(t_lines) = 1002
    /\ Len(output_buffer) = 1000
    /\ output_buffer[1].timestamp = t_lines[3].timestamp
    /\ output_buffer[1000].timestamp = t_lines[1002].timestamp
    /\ is_tracking

\* C27 as stated: after a successful tag query for a key (registry, image,
\* branch), every query for the same key made less than 5 minutes later
\* returns the cached list without running the listing tool, and a query
\* made 5 minutes or more later runs the tool again and replaces the cache
\* entry; a query for one key never reads or changes the entry of another
\* key.
C27_CachePerKey ==
    [][r_queries' # r_queries =>
          LET t == r_last'.triple[1]
              known == r_fetched[t]
              recent == known.present /\ r_clock - known.time < 5
          IN  /\ recent => (~r_last'.invoked /\ r_last'.listed = known.data)
              /\ ~recent => r_last'.invoked
              /\ (r_last'.invoked /\ r_last'.outcome = "ok") =>
                    cache'[KeyOf(t)] =
                       [present |-> TRUE, time |-> r_clock, data |-> r_last'.listed]
              /\ \A u \in Triples \ {t} : cache'[KeyOf(u)] = cache[KeyOf(u)]]_vars

C27_Witness ==
    /\ r_last.op = "list_image_tags"
    /\ r_last.triple[1].registry = <<"ghcr.io">>
    /\ r_last.triple[1].image = <<"ublue-os", "/", "bazzite">>
    /\ ~r_last.invoked
    /\ ~r_fetched[r_last.triple[1]].present
    /\ Len(r_last.value) = 3
    /\ r_last.value[1].registry = <<"ghcr.io", "/", "ublue-os">>
    /\ r_last.value[1].name = <<"bazzite">>

\* C28: when the listing tool fails (non-zero exit, timeout, missing
\* binary, unparsable output), list_image_tags and get_recent_images return
\* a list (empty, or previously cached data) instead of raising; the failure
\* is not stored in the cache, and the next query for that key runs the tool
\* again.
C28_ToolFailureHarmless ==
    [][r_queries' # r_queries =>
          /\ (r_last'.invoked /\ r_last'.outcome # "ok") =>
                /\ r_last'.raised = "none"
                /\ r_last'.value \in {<< >>, cache[KeyOf(r_last'.triple[1])].data}
                /\ cache' = cache
          /\ (r_last.outcome \notin {"ok", "none"} /\ r_last'.triple = r_last.triple) =>
                r_last'.invoked]_vars

C28_Witness ==
    /\ r_queries = 2
    /\ r_last.op = "get_recent_images"
    /\ r_last.invoked
    /\ r_last.outcome = "FileNotFoundError"
    /\ r_last.raised = "none"
    /\ r_last.value = << >>
    /\ cache[KeyOf(r_last.triple[1])].present
    /\ Len(cache[KeyOf(r_last.triple[1])].data) = 3
    /\ r_clock - cache[KeyOf(r_last.triple[1])].time >= 5

\* C29: generate_rollback_command(id) returns nothing when id is the
\* booted deployment, [rpm-ostree, rollback] when id is the deployment
\* immediately behind the booted one, and [rpm-ostree, deploy, id] for every
\* other deployment that is not booted; it never returns a command that
\* targets the booted deployment.
C29_RollbackCommand ==
    d_last.op = "generate_rollback_command" =>
       LET deps == d_last.deployments
           at == {i \in 1..Len(deps) : deps[i].id = d_last.id}
           bootedAt == {i \in 1..Len(deps) : deps[i].is_booted}
       IN  /\ at \cap bootedAt # {} => ~d_last.command.some
           /\ \A i \in at \ bootedAt :
                 IF i - 1 \in bootedAt
                 THEN d_last.command = [some |-> TRUE, argv |-> <<"rpm-ostree", "rollback">>]
                 ELSE d_last.command =
                         [some |-> TRUE, argv |-> <<"rpm-ostree", "deploy", d_last.id>>]
           /\ d_last.command.some => at \cap bootedAt = {}

C29_Witness ==
    /\ d_last.op = "generate_rollback_command"
    /\ d_last.outcome = "ok"
    /\ Len(d_last.deployments) = 4
    /\ d_last.deployments[2].is_booted
    /\ d_last.id = d_last.deployments[3].id
    /\ d_last.command.argv = <<"rpm-ostree", "rollback">>

EventsSinceStart ==
    LET starts == {i \in 1..Len(js_queue) : js_queue[i].kind = "initializeProgress"}
        last == CHOOSE i \in starts : \A j \in starts : j <= i
    IN  IF starts = {} THEN << >>
        ELSE SelectSeq(SubSeq(js_queue, last + 1, Len(js_queue)),
                       LAMBDA e : e.kind = "updateProgress")

\* the lines of the text delivered since start_tracking that a newline has
\* completed
CompletedLines ==
    LET pieces == split(t_text)
    IN  SubSeq(pieces, 1, Len(pieces) - 1)

\* C35 as stated: every completed line passed to update_output while
\* tracking is active is emitted as exactly one progress event, with its
\* terminal escape sequences removed, in input order; no completed line is
\* dropped.
C35_EveryLineEmitted ==
    is_tracking =>
       /\ Len(EventsSinceStart) = Len(CompletedLines)
       /\ \A i \in 1..Len(CompletedLines) :
             EventsSinceStart[i].text = _clean_ansi_codes(CompletedLines[i])

\* C35 amended: every completed line that holds a character other than
\* white space is emitted as exactly one progress event, with its terminal
\* escape sequences removed, in input order; completed lines that are empty
\* or all white space are emitted as no event.
C35_NonBlankLinesEmitted ==
    is_tracking =>
       LET kept == {i \in 1..Len(CompletedLines) :
                      \E j \in 1..Len(CompletedLines[i]) :
                         CompletedLines[i][j] \notin {" ", "NL"}}
           rank(i) == Cardinality({k \in kept : k <= i})
       IN  /\ Len(EventsSinceStart) = Cardinality(kept)
           /\ \A i \in kept :
                 EventsSinceStart[rank(i)].text = _clean_ansi_codes(CompletedLines[i])

C35_Witness ==
    /\ is_tracking
    /\ t_text = <<"ESC", "a", "a", "NL", " ", "NL", "a", "NL">>
    /\ Len(EventsSinceStart) = 2
    /\ EventsSinceStart[1].text = <<"a">>
    /\ EventsSinceStart[2].text = <<"a">>

\* C36 as stated: the line count carried by the completion event equals the
\* total number of lines emitted since start_tracking, also when more than
\* 1000 lines were emitted during the operation.
C36_CompletionCountsAllLines ==
    (t_last = [op |-> "complete", tracking |-> TRUE]) =>
       /\ js_queue[Len(js_queue)].kind = "completeProgress"
       /\ js_queue[Len(js_queue)].lineCount = Len(t_lines)

C36_Witness ==
    /\ t_last = [op |-> "complete", tracking |-> TRUE]
    /\ Len(t_lines) = 1002
    /\ Len(EventsSinceStart) = 1002
    /\ js_queue[Len(js_queue)].kind = "completeProgress"
    /\ js_queue[Len(js_queue)].lineCount = 1000

\* C38: get_recent_images returns, newest first, every dated tag of the
\* branch whose date lies within the last days days, and adds undated tags
\* only as backfill when fewer than 20 dated tags qualify, never more than
\* 20 undated tags; a dated tag older than days is never returned.
C38_RecentImages ==
    (r_last.op = "get_recent_images" /\ r_last.raised = None) =>
       LET all == r_last.listed
           v == r_last.value
           cutoff == Today - r_days
           qualifying == {i \in 1..Len(all) :
                            all[i].date # {} /\ \A d \in all[i].date : d >= cutoff}
           datedV == {j \in 1..Len(v) : v[j].date # {}}
           undatedV == {j \in 1..Len(v) : v[j].date = {}}
       IN  /\ \A i \in qualifying : \E j \in datedV : v[j] = all[i]
           /\ Cardinality(datedV) = Cardinality(qualifying)
           /\ \A j \in datedV, k \in datedV :
                 j < k => \A d \in v[j].date, e \in v[k].date : d >= e
           /\ \A j \in datedV : \A d \in v[j].date : d >= cutoff
           /\ Cardinality(undatedV) <= 20
           /\ undatedV # {} => Cardinality(qualifying) < 20
           /\ \A j \in 1..Len(v) :
                 /\ BranchMatches(r_last.triple[1].branch, v[j].tag)
                 /\ \E i \in 1..Len(all) : all[i] = v[j]

C38_Witness ==
    /\ r_last.op = "get_recent_images"
    /\ r_last.invoked
    /\ r_days = 35
    /\ Len(r_last.listed) = 28
    /\ Len(r_last.value) = 20
    /\ r_last.value[1].tag = <<"41", "-", "stable", "-", "20240801">>
    /\ r_last.value[2].date = {}
    /\ r_last.value[20].tag = <<"stable", "-", "b19">>

\* C37 as stated: generate_security_report never writes the store, and its
\* recent_failures list holds the most recent 10 failed entries of the
\* store with their error messages, newest first, however many successful
\* entries lie between them.
C37_RecentFailures ==
    [][rep_calls' # rep_calls =>
          /\ fs' = fs
          /\ rep_last'.raised = None =>
                LET entries == _load_history(fs[history_file]).entries
                    failedAt == {i \in 1..Len(entries) : ~entries[i].success}
                    recent == {i \in failedAt :
                                 Cardinality({j \in failedAt : j < i}) < 10}
                    rank(i) == Cardinality({j \in failedAt : j <= i})
                IN  /\ Len(rep_last'.recent_failures) = Cardinality(recent)
                    /\ \A i \in recent :
                          /\ rep_last'.recent_failures[rank(i)].timestamp =
                                <<"formatted", entries[i].timestamp>>
                          /\ entries[i].error_message # {} =>
                                rep_last'.recent_failures[rank(i)].error =
                                   entries[i].error_message]_vars

C37_Witness ==
    /\ rep_last.called
    /\ rep_last.raised = None
    /\ rep_last.total_commands = 13
    /\ rep_last.failed = 3
    /\ Len(rep_last.recent_failures) = 1
    /\ rep_last.recent_failures[1].timestamp = <<"formatted", 4>>

\* C34 as stated: no history entry is lost by interleaving: when two
\* add_entry calls overlap in time, after both have returned the store
\* contains both new entries, unless one was evicted by the 50-entry cap.
C34_NoEntryLost ==
    (\A t \in Threads : a_pc[t] = "idle") =>
       LET stored == _load_history(FileAt(history_file)).entries
       IN  \A e \in a_done :
              \/ \E i \in 1..Len(stored) : stored[i] = e
              \/ Cardinality({d \in a_done : d.timestamp > e.timestamp}) >= MAX_ENTRIES

C34_Witness ==
    /\ \A t \in Threads : a_pc[t] = "idle"
    /\ a_adds = 2
    /\ Cardinality(a_done) = 2
    /\ LET stored == _load_history(FileAt(history_file)).entries
       IN  /\ Len(stored) = 2
           /\ stored[1].timestamp = 101
           /\ stored[2].timestamp = 1

\* C32: _analyze_error_type maps every output of a command that exited
\* non-zero to exactly one of network, auth, busy, not_found and general,
\* testing the categories in that order: output with connection, DNS or
\* registry-unreachable phrasing is network even if it also says "no such",
\* and output with none of the trigger phrases is general.
C32_ErrorKinds ==
    an_last.called =>
       LET has(phrases) ==
              \E i \in 1..Len(an_last.output) :
                 \E j \in 1..Len(an_last.output[i]) : an_last.output[i][j] \in phrases
           network == has({"unable to connect", "could not resolve host", "dial tcp",
                           "network timeout", "connection refused"})
           auth == has({"permission denied", "authentication failed",
                        "authorization failed", "unauthorized", "access denied"})
           busy == has({"transaction already in use", "another transaction", "busy"})
           not_found == has({"no such", "not found"})
       IN  /\ an_last.kind \in {"network", "auth", "busy", "not_found", "general"}
           /\ an_last.kind = "network" <=> network
           /\ an_last.kind = "auth" <=> (auth /\ ~network)
           /\ an_last.kind = "busy" <=> (busy /\ ~auth /\ ~network)
           /\ an_last.kind = "not_found" <=> (not_found /\ ~busy /\ ~auth /\ ~network)
           /\ an_last.kind = "general" <=> ~(network \/ auth \/ busy \/ not_found)

C32_Witness ==
    /\ an_last.called
    /\ an_last.output = <<<<"error", "while pulling", "dial tcp", "no such", "host">>>>
    /\ an_last.exit_code = 1
    /\ an_last.kind = "network"


\* C33: cancel_current_execution racing with the natural exit of the process
\* yields exactly one terminal outcome for that execution: a cancel that
\* arrives when the process has already exited (or none is held) signals no
\* process, returns False without raising and leaves the executor's state and
\* every result unchanged; and a result, once determined, is not replaced
\* before the call returns it.
C33_CancelAfterExitIsNoOp ==
    [][/\ (/\ cancels' # cancels
           /\ \/ current_process = None
              \/ proc[current_process].state # "alive") =>
              /\ proc' = proc
              /\ UNCHANGED <<is_executing, current_process, cancel_requested>>
              /\ result' = result
              /\ pc' = pc
              /\ exc' = exc
              /\ ui_pc' = "idle"
              /\ cancel_result' = FALSE
       /\ \A t \in Workers :
              (result[t] # NoResult /\ result'[t] # result[t]) =>
                  /\ pc[t] \in {"finally", "done"}
                  /\ pc'[t] = "idle"
                  /\ result'[t] = NoResult]_vars

C33_Witness ==
    \E t \in Workers :
        /\ cancels = 2
        /\ ui_pc = "idle"
        /\ cancel_result = FALSE
        /\ current_process = t
        /\ proc[t].state = "exited"
        /\ proc[t].terms = 1
        /\ proc[t].ckills = 0
        /\ pc[t] = "finally"
        /\ result[t].outcome = "Cancelled"

\* the update tools in the order of their priority
ToolOrder == <<"uupd", "ujust", "bootc", "rpm-ostree">>

C39_HandleFollowsProcess ==
    \A w \in UpdateThreads :
        /\ u_raised[w] = None
        /\ u_proc[w].state = "alive" => update_process = w
        /\ (u_pc[w] = "readline" /\ u_proc[w].state = "alive") => u_held[w] = w

C39_Witness ==
    /\ u_pc[1] = "done"
    /\ u_raised[1] = None
    /\ u_pc[2] = "readline"
    /\ u_proc[2].state = "alive"
    /\ update_process = NoHandle
    /\ u_main = MainIdle

\* C40: for every image family of the configuration table with a detected
\* current variant, generate_rebase_url returns, without raising, the
\* family's base_url followed by a variant suffix, a colon and the branch:
\* the pending branch if one is chosen, the current branch otherwise.
C40_RebaseUrlForEveryFamily ==
    g_last.called =>
        LET base_url == ImageConfig[g_window.family].base_url
            branch == IF g_window.pending.branch = {}
                      THEN g_window.branch
                      ELSE CHOOSE b \in g_window.pending.branch : TRUE
            url == g_last.result.url
        IN  /\ g_last.result.raised = None
            /\ Len(url) >= Len(base_url) + 2
            /\ SubSeq(url, 1, Len(base_url)) = base_url
            /\ SubSeq(url, Len(url) - 1, Len(url)) = <<":", branch>>
            /\ \A i \in (Len(base_url) + 1)..(Len(url) - 2) :
                  url[i] \in {"-nvidia", "-gnome", "-deck", "-asus", "-dx"}

C40_Witness ==
    /\ g_last.called
    /\ g_window.family = "SILVERBLUE"
    /\ g_window.variant = "silverblue"
    /\ g_window.pending.branch = {}
    /\ g_last.result.raised = "UnboundLocalError"

====
